---- MODULE Spec2Model ----
(***************************************************************************)
(* planc: the interactive event core (model.go), the plan model            *)
(* (plan.go, held in main.go), the store commands and the file watcher     *)
(* adapter (commands.go), modelled as a state machine.                     *)
(*                                                                         *)
(* The Go program is a Bubble Tea application: one goroutine runs          *)
(* Update(model, msg) -> (model', cmd); commands run off the loop and post *)
(* one message back.  Here the model object is the record variable m, the  *)
(* commands that were dispatched and have not run yet are the bag tasks,   *)
(* the messages that were produced and have not been handled yet (results  *)
(* and pending timer ticks) are the bag inbox, and the plan files are the  *)
(* function disk.  Every handler is an operator from (m, msg) to the       *)
(* record [m |-> model', cmds |-> commands emitted], as in the source.     *)
(*                                                                         *)
(* Abstractions: a rendered preview is the pair (file, render width); the  *)
(* list widget shows every item on one page, so its Index() is its cursor; *)
(* times are the three instants OldTime < InstallTime < NowTime.           *)
(***************************************************************************)
EXTENDS Bags, FiniteSets, Integers, Sequences, TLC

\* ------------------------------------------------------------------ bounds
\* Most single-plan status results handled in one run (caps undoID).
MaxGen == 2
\* Most external edits of plan files in one run.
MaxEdits == 2
\* Most writes of the program's own in one run of the watcher adapter.
MaxWrites == 1
\* The last instant of the watcher adapter's clock, in units of 100 ms.
MaxClock == 6
\* Most lines of a file text under study, and most writes to it.
MaxLines == 5
MaxCalls == 2
\* Most plans handed to one filterPlans call.
MaxPlans == 2
\* Most comma-separated parts of a labels value at the start.
MaxParts == 3
\* Most window size reports in one run.
MaxResizes == 2
\* Screens of preview below the first one (the range of viewport.YOffset).
ScrollMax == 1

\* --------------------------------------------------------------- universe
Files == {"a.md", "b.md", "c.md"}
Labels == {"x", "y", "z"}
\* m.dir, the plans directory every scanned plan carries in plan.dir.
PlansDir == "d"
\* A plan that a test or the demo store builds without a directory.
NoDir == ""
\* plan.status values: "" is unset; "pending" is the legacy token that
\* model.go still sends and scanPlans migrates to "reviewed".
Statuses == {"", "pending", "reviewed", "active", "done"}

\* time.Time values: the zero time, a time before the first run, the first
\* run (config.Installed) and the present.
ZeroTime == 0
OldTime == ZeroTime + 1
InstallTime == OldTime + 1
NowTime == InstallTime + 1

\* watchDir, in units of 100 ms: the coalescing sleep and the window after a
\* write of our own in which a batch is dropped.
CoalesceSleep == 1
SelfWriteWindow == 5

\* handleLabelModal: the ticks of the flash after enter on a choice.
LabelFlashTicks == 5
\* Labels that exist on no plan at start and can be typed into the editor.
NewLabels == {"z"}

\* File birth time, descending rank: a.md is the newest file.
Created(f) == CASE f = "a.md" -> 3 [] f = "b.md" -> 2 [] OTHER -> 1
\* Name order of labels (sort.Strings, and the tie-break of recentLabels).
LabelRank(l) == CASE l = "x" -> 1 [] l = "y" -> 2 [] OTHER -> 3

None == [none |-> TRUE]
\* What the viewport holds before any preview is shown (the empty string).
EmptyContent == [file |-> "", pw |-> 0]
\* The placeholder enterDemoMode puts in the viewport ("Loading demo...").
LoadingContent == [file |-> "", pw |-> 1]

\* ------------------------------------------------------------- plan model
\* plan.path(): filepath.Join(p.dir, p.file).
PathJoin(dir, file) == IF dir = "" THEN file ELSE dir \o "/" \o file
path(p) == PathJoin(p.dir, p.file)

mkPlan(dir, file, status, labels, modified) ==
    [dir |-> dir, file |-> file, status |-> status, labels |-> labels,
     modified |-> modified]

\* hasLabel(labels, target)
hasLabel(labels, target) == target \in labels

\* filterKeeps with Before read as "not after": a plan modified at the
\* install time is hidden.
filterKeepsHidesAtInstall(p, showDone, keepFiles, labelFilter, installed) ==
    /\ ~(labelFilter /= "" /\ ~hasLabel(p.labels, labelFilter))
    /\ ~(~showDone /\ p.status = "done" /\ path(p) \notin keepFiles)
    /\ ~(/\ ~showDone /\ p.status = "" /\ path(p) \notin keepFiles
         /\ (installed = ZeroTime \/ p.modified <= installed))

\* The loop body of filterPlans: TRUE iff plan p is appended to the result.
filterKeeps(p, showDone, keepFiles, labelFilter, installed) ==
    /\ ~(labelFilter /= "" /\ ~hasLabel(p.labels, labelFilter))
    /\ ~(~showDone /\ p.status = "done" /\ path(p) \notin keepFiles)
    /\ ~(/\ ~showDone /\ p.status = "" /\ path(p) \notin keepFiles
         /\ (installed = ZeroTime \/ p.modified < installed))

\* SelectSeq keeps the input order, as the append loop does.
filterPlans(plans, showDone, keepFiles, labelFilter, installed) ==
    SelectSeq(plans, LAMBDA p : filterKeeps(p, showDone, keepFiles, labelFilter, installed))

\* Insert plan p into a sequence that is sorted by created, descending.
RECURSIVE InsertPlan(_, _)
InsertPlan(p, s) ==
    IF s = << >> THEN <<p>>
    ELSE IF Created(p.file) > Created(Head(s).file) THEN <<p>> \o s
    ELSE <<Head(s)>> \o InsertPlan(p, Tail(s))

\* sortPlans: by created, descending (birth times of distinct files differ).
RECURSIVE sortPlans(_)
sortPlans(plans) ==
    IF plans = << >> THEN << >> ELSE InsertPlan(Head(plans), sortPlans(Tail(plans)))

RECURSIVE SetToSortedPlans(_)
SetToSortedPlans(S) ==
    IF S = {} THEN << >>
    ELSE LET p == CHOOSE q \in S : \A r \in S : Created(q.file) >= Created(r.file)
         IN <<p>> \o SetToSortedPlans(S \ {p})

\* scanPlans(dir) on the files of d: one plan per existing .md file, status
\* "pending" migrated to "reviewed", sorted.
scanPlans(d) ==
    SetToSortedPlans({ mkPlan(PlansDir, f,
                              IF d[f].status = "pending" THEN "reviewed" ELSE d[f].status,
                              d[f].labels, d[f].modified) :
                       f \in {g \in Files : d[g].exists} })

\* recentLabels: the labels of the plans, most frequent first, then by name.
labelCount(plans, l) == Cardinality({i \in DOMAIN plans : l \in plans[i].labels})
labelBefore(plans, l1, l2) ==
    \/ labelCount(plans, l1) > labelCount(plans, l2)
    \/ labelCount(plans, l1) = labelCount(plans, l2) /\ LabelRank(l1) < LabelRank(l2)
RECURSIVE OrderLabels(_, _)
OrderLabels(plans, S) ==
    IF S = {} THEN << >>
    ELSE LET l == CHOOSE k \in S : \A j \in S \ {k} : labelBefore(plans, k, j)
         IN <<l>> \o OrderLabels(plans, S \ {l})
recentLabels(plans) ==
    OrderLabels(plans, {l \in Labels : labelCount(plans, l) > 0})

\* nextStatus (the ~ cycle table of plan.go).
nextStatus(s) ==
    CASE s = "" -> "reviewed" [] s = "reviewed" -> "active"
      [] s = "active" -> "done" [] s = "done" -> "reviewed" [] OTHER -> ""

SeqToSet(s) == {s[i] : i \in DOMAIN s}
FilesOf(plans) == {plans[i].file : i \in DOMAIN plans}
Max(a, b) == IF a > b THEN a ELSE b
Min(a, b) == IF a < b THEN a ELSE b

\* ------------------------------------------------------------ list widget
\* bubbles/list with every item on one page: Index() is the cursor, SetItems
\* keeps it, and while a search is on the rows shown are filteredItems.
VisibleItems(mm) == IF mm.filterState = "unfiltered" THEN mm.items ELSE mm.filteredItems

\* list.SelectedItem(): nil (None) when the index is outside the rows shown.
SelectedItem(mm) ==
    LET v == VisibleItems(mm)
    IN IF mm.index < 0 \/ mm.index >= Len(v) THEN None ELSE v[mm.index + 1]

\* list.SetItems: the refilter command it returns while a search is on is
\* dropped by every caller in model.go, so filteredItems stays empty.
SetItems(mm, plans) ==
    [mm EXCEPT !.items = plans,
               !.filteredItems = IF mm.filterState /= "unfiltered" THEN << >> ELSE @]

\* list.Select / list.ResetSelected
Select(mm, i) == [mm EXCEPT !.index = i]
ResetSelected(mm) == Select(mm, 0)

\* list.CursorDown / list.CursorUp on one page.
CursorDown(mm) ==
    LET n == Len(VisibleItems(mm))
    IN [mm EXCEPT !.index = IF mm.index + 1 < n THEN mm.index + 1 ELSE Max(0, n - 1)]
CursorUp(mm) == [mm EXCEPT !.index = IF mm.index - 1 >= 0 THEN mm.index - 1 ELSE 0]

SettingFilter(mm) == mm.filterState = "filtering"
IsFiltered(mm) == mm.filterState = "applied"

\* --------------------------------------------------------------- viewport
\* viewport.SetContent keeps YOffset unless the content is shorter; every
\* rendered plan is ScrollMax + 1 screens long, the empty string is not.
SetContent(mm, c) ==
    [mm EXCEPT !.vpContent = c, !.vpYOffset = IF c.file = "" THEN 0 ELSE @]
GotoTop(mm) == [mm EXCEPT !.vpYOffset = 0]
maxYOffset(mm) == IF mm.vpContent.file = "" THEN 0 ELSE ScrollMax
SetYOffset(mm, off) == [mm EXCEPT !.vpYOffset = Max(0, Min(off, maxYOffset(mm)))]
ScrollDown(mm) == SetYOffset(mm, mm.vpYOffset + 1)
ScrollUp(mm) == SetYOffset(mm, mm.vpYOffset - 1)

\* ---------------------------------------------------------- model helpers
planSource(mm) == IF mm.demoActive THEN mm.demoPlans ELSE mm.allPlans
setPlanSource(mm, plans) ==
    IF mm.demoActive THEN [mm EXCEPT !.demoPlans = plans] ELSE [mm EXCEPT !.allPlans = plans]

\* "(*plans)[i] = updated": an element of the backing array is overwritten.
\* The demo store's "plans *[]plan" was taken from the model value that
\* entered demo mode; it reads the same array for as long as the model's
\* demo.plans has not been assigned a new slice (storeShared).
writePlanInPlace(mm, plans) ==
    IF mm.demoActive /\ mm.storeShared
    THEN [setPlanSource(mm, plans) EXCEPT !.storePlans = plans]
    ELSE setPlanSource(mm, plans)

\* "*plans = msg.plans": Update works on a copy of the model, so the slice
\* the demo store points to keeps the array it had.
assignPlanSource(mm, plans) ==
    IF mm.demoActive
    THEN [setPlanSource(mm, plans) EXCEPT !.storeShared = FALSE]
    ELSE setPlanSource(mm, plans)

\* keepFiles: the file of the undo record's new plan and the batch files.
keepFiles(mm) ==
    (IF mm.lastStatusChange /= None THEN {mm.lastStatusChange.newPlan.file} ELSE {})
        \cup mm.batchKeepFiles

\* visiblePlans: the demo branch uses an installed time two days back.
visiblePlans(mm) ==
    IF mm.demoActive
    THEN filterPlans(mm.demoPlans, mm.showDone, keepFiles(mm), mm.labelFilter, InstallTime)
    ELSE filterPlans(mm.allPlans, mm.showDone, keepFiles(mm), mm.labelFilter, mm.installed)

selectedFile(mm) == IF SelectedItem(mm) = None THEN "" ELSE SelectedItem(mm).file

IndexOfFile(plans, file) ==
    IF \E i \in DOMAIN plans : plans[i].file = file
    THEN (CHOOSE i \in DOMAIN plans : plans[i].file = file /\ \A j \in 1..(i - 1) : plans[j].file /= file) - 1
    ELSE -1

\* selectFile: cursor to the item of that file, else clamp to the last item.
selectFile(mm, file) ==
    IF IndexOfFile(mm.items, file) >= 0 THEN Select(mm, IndexOfFile(mm.items, file))
    ELSE IF mm.index >= Len(mm.items) /\ Len(mm.items) > 0 THEN Select(mm, Len(mm.items) - 1)
    ELSE mm

\* pruneSelection: drop selected files that are not items of the list.
pruneSelection(mm) == [mm EXCEPT !.selected = @ \cap FilesOf(mm.items)]

\* firstSelectedPlan: first selected plan in list order, else plan{}.
firstSelectedPlan(mm) ==
    LET idx == {i \in DOMAIN mm.items : mm.items[i].file \in mm.selected}
    IN IF idx = {} THEN mkPlan("", "", "", {}, ZeroTime)
       ELSE mm.items[CHOOSE i \in idx : \A j \in idx : i <= j]

previewW(mm) == mm.width - ((mm.width * 40) \div 100) - 2

\* glamourRender: the word-wrap width the renderer is built with.
glamourWidth(width) == IF width - 4 < 20 THEN 80 ELSE width - 4

\* renderMarkdown / renderPlan as a command, and the message it returns.
\* refresh is bookkeeping the program does not have: TRUE on the re-render
\* that fileChangedMsg issues for a changed file that is the selected plan's
\* and was cached.
renderCmd(file, width) ==
    [kind |-> "render", file |-> file, width |-> width, refresh |-> FALSE]
planContentMsg(file, width, refresh) ==
    [type |-> "planContent", file |-> file, refresh |-> refresh,
     content |-> [file |-> file, pw |-> glamourWidth(width)]]

\* renderWindow: one render command per uncached item among cursor +-2.
RECURSIVE renderFrom(_, _, _)
renderFrom(mm, i, last) ==
    IF i > last THEN << >>
    ELSE (IF i < 0 \/ i >= Len(mm.items) \/ mm.items[i + 1].file \in DOMAIN mm.previewCache
          THEN << >>
          ELSE <<renderCmd(mm.items[i + 1].file, previewW(mm))>>)
         \o renderFrom(mm, i + 1, last)
renderWindow(mm) ==
    IF Len(mm.items) = 0 THEN << >> ELSE renderFrom(mm, mm.index - 2, mm.index + 2)

\* tea.Tick as a command: the message it delivers when the timer fires.
tick(msg) == [kind |-> "tick", msg |-> msg]

\* ------------------------------------------------------------ key handling
\* What a handler returns: the model, the commands of its tea.Batch, and for
\* handleKeyMsg whether Update returns at once (handled) or falls through to
\* list.Update.
R(mm, cmds, handled) == [m |-> mm, cmds |-> cmds, handled |-> handled]

\* tea.Quit, and markReleaseNotesSeen(version).
quitCmd == [kind |-> "quit"]
markReleaseNotesSeen == [kind |-> "markSeen"]

\* planStore.setStatus through m.store (disk store, or demo store in demo mode).
cmdSetStatus(mm, p, status) ==
    [kind |-> "setStatus", store |-> IF mm.demoActive THEN "demo" ELSE "disk",
     plan |-> p, status |-> status]
cmdBatchSetStatus(mm, files, status) ==
    [kind |-> "batchSetStatus", store |-> IF mm.demoActive THEN "demo" ELSE "disk",
     files |-> files, status |-> status,
     plans |-> IF mm.demoActive THEN mm.storePlans ELSE << >>]
\* planStore.deletePlan through m.store.
cmdDelete(mm, p) ==
    [kind |-> "delete", store |-> IF mm.demoActive THEN "demo" ELSE "disk", plan |-> p]

\* "if file := m.selectedFile(); file != "" { if content, ok := cache[file] ..."
showCached(mm) ==
    IF selectedFile(mm) /= "" /\ selectedFile(mm) \in DOMAIN mm.previewCache
    THEN GotoTop(SetContent(mm, mm.previewCache[selectedFile(mm)]))
    ELSE mm

\* The status a direct key 0-3 asks for.
statusOfKey(k) ==
    CASE k = "0" -> "" [] k = "1" -> "pending" [] k = "2" -> "active" [] OTHER -> "done"

\* The target of ~: nextStatus, and "pending" where the table gives "".
cycleTarget(s) == IF nextStatus(s) = "" THEN "pending" ELSE nextStatus(s)

\* --------------------------------------------------------- label editor
\* planStore.setLabels / batchUpdateLabels through m.store.  add is built
\* by ranging over a map, so its order is not fixed: a set.
cmdSetLabels(mm, p, labels) ==
    [kind |-> "setLabels", store |-> IF mm.demoActive THEN "demo" ELSE "disk",
     plan |-> p, labels |-> labels]
cmdBatchUpdateLabels(mm, files, add, remove) ==
    [kind |-> "batchUpdateLabels", store |-> IF mm.demoActive THEN "demo" ELSE "disk",
     files |-> files, add |-> add, remove |-> remove]

\* The labels of the selected plans of the list: on all of them, on some.
selectedPlans(mm) == {mm.items[i] : i \in {k \in DOMAIN mm.items : mm.items[k].file \in mm.selected}}
labelsOnAll(mm) == {l \in Labels : \A p \in selectedPlans(mm) : l \in p.labels}
labelsOnSome(mm) == {l \in Labels : \E p \in selectedPlans(mm) : l \in p.labels}

\* openLabelModal: labelToggled is a map label -> bool, labelMixed a set.
openLabelModal(mm, batchMode) ==
    LET m1 == [mm EXCEPT !.settingLabels = TRUE, !.labelBatchMode = batchMode,
                         !.labelChoices = recentLabels(planSource(mm)),
                         !.labelDirty = FALSE, !.labelFlashTick = 0]
    IN IF batchMode /\ mm.selected /= {}
       THEN [m1 EXCEPT !.labelToggled = [l \in labelsOnAll(mm) \cap labelsOnSome(mm) |-> TRUE],
                       !.labelMixed = labelsOnSome(mm) \ labelsOnAll(mm)]
       ELSE [m1 EXCEPT !.labelToggled = IF SelectedItem(mm) /= None
                                        THEN [l \in SelectedItem(mm).labels |-> TRUE]
                                        ELSE << >>,
                       !.labelMixed = {}]

\* m.labelToggled[l] of a Go map: false for a missing key.
isToggled(mm, l) == l \in DOMAIN mm.labelToggled /\ mm.labelToggled[l]
setToggled(mm, l, on) ==
    [mm EXCEPT !.labelToggled = [x \in DOMAIN @ \cup {l} |-> IF x = l THEN on ELSE @[x]]]

\* The toggle of space and enter: mixed -> on, else flip.
toggleLabel(mm, l) ==
    [(IF l \in mm.labelMixed
      THEN [setToggled(mm, l, TRUE) EXCEPT !.labelMixed = @ \ {l}]
      ELSE setToggled(mm, l, ~isToggled(mm, l)))
     EXCEPT !.labelDirty = TRUE]

hasLabelChanges(mm) ==
    IF mm.labelBatchMode THEN mm.labelDirty
    ELSE /\ SelectedItem(mm) /= None
         /\ {l \in DOMAIN mm.labelToggled : mm.labelToggled[l]} /= SelectedItem(mm).labels

\* applyLabelChanges (model): the command the editor sends.
applyLabelChanges(mm) ==
    IF mm.labelBatchMode /\ mm.selected /= {}
    THEN <<cmdBatchUpdateLabels(mm, mm.selected,
               {l \in DOMAIN mm.labelToggled : mm.labelToggled[l]},
               {mm.labelChoices[i] : i \in {k \in DOMAIN mm.labelChoices :
                    ~isToggled(mm, mm.labelChoices[k]) /\ mm.labelChoices[k] \notin mm.labelMixed}})>>
    ELSE IF SelectedItem(mm) /= None
         THEN <<cmdSetLabels(mm, SelectedItem(mm), {l \in DOMAIN mm.labelToggled : mm.labelToggled[l]})>>
         ELSE << >>

\* handleLabelModal.  The text input and the cursor are not kept: the key
\* comes with the label it acts on.  "esc"; "create" is enter on a typed
\* label that matches no choice; "enter" is enter on an empty input with the
\* cursor on choice l; "enterTyped" is enter on an input that matches choice
\* l; "space" toggles choice l.
flashToggle(mm, l) ==
    R([toggleLabel(mm, l) EXCEPT !.labelFlashTick = LabelFlashTicks],
      <<tick([type |-> "labelFlash"])>>, TRUE)
handleLabelModal(mm, kind, l) ==
    IF mm.labelFlashTick > 0 THEN R(mm, << >>, TRUE)
    ELSE CASE kind = "ctrl+c" -> R(mm, <<quitCmd>>, TRUE)
           [] kind = "esc" ->
                LET m1 == [mm EXCEPT !.settingLabels = FALSE]
                IN R(m1, IF hasLabelChanges(m1) THEN applyLabelChanges(m1) ELSE << >>, TRUE)
           [] kind = "create" ->
                LET m1 == [setToggled(mm, l, TRUE) EXCEPT !.labelDirty = TRUE,
                                                        !.settingLabels = FALSE]
                IN R(m1, applyLabelChanges(m1), TRUE)
           [] kind = "enter" ->
                IF hasLabelChanges(mm)
                THEN LET m1 == [mm EXCEPT !.settingLabels = FALSE]
                     IN R(m1, applyLabelChanges(m1), TRUE)
                ELSE IF l \in SeqToSet(mm.labelChoices) THEN flashToggle(mm, l)
                ELSE R([mm EXCEPT !.settingLabels = FALSE], << >>, TRUE)
           [] kind = "enterTyped" -> flashToggle(mm, l)
           [] kind = "space" -> R(toggleLabel(mm, l), << >>, TRUE)
           [] OTHER -> R(mm, << >>, TRUE)

\* fmt.Sprintf("Delete %s? (y/n)", item.file)
deletePrompt(file) ==
    CASE file = "a.md" -> "Delete a.md? (y/n)"
      [] file = "b.md" -> "Delete b.md? (y/n)"
      [] file = "c.md" -> "Delete c.md? (y/n)"
      [] OTHER -> "Delete ? (y/n)"

\* setNotification(text, duration > 0)
setNotification(mm, text) ==
    R([mm EXCEPT !.notificationID = @ + 1, !.notification = text],
      <<tick([type |-> "notificationClear", id |-> mm.notificationID + 1])>>, TRUE)

\* handleDeleteConfirm
handleDeleteConfirm(mm, k) ==
    CASE k = "y" /\ SelectedItem(mm) /= None ->
            LET n == setNotification([mm EXCEPT !.confirmDelete = FALSE, !.notification = ""],
                                     "Deleted")
            IN R(n.m, <<cmdDelete(mm, SelectedItem(mm))>> \o n.cmds, TRUE)
      [] k \in {"n", "esc", "q"} ->
            R([mm EXCEPT !.confirmDelete = FALSE, !.notification = ""], << >>, TRUE)
      [] k = "ctrl+c" -> R(mm, <<quitCmd>>, TRUE)
      [] OTHER -> R(mm, << >>, TRUE)

\* applyStatus and handleStatusModal, without the cursor keys and enter.
applyStatus(mm, status) ==
    IF mm.selected /= {} THEN <<cmdBatchSetStatus(mm, mm.selected, status)>>
    ELSE IF SelectedItem(mm) /= None /\ SelectedItem(mm).status /= status
    THEN <<cmdSetStatus(mm, SelectedItem(mm), status)>>
    ELSE << >>
handleStatusModal(mm, k) ==
    CASE k = "ctrl+c" -> R(mm, <<quitCmd>>, TRUE)
      [] k = "esc" -> R([mm EXCEPT !.settingStatus = FALSE], << >>, TRUE)
      [] k \in {"0", "1", "2", "3"} ->
            R([mm EXCEPT !.settingStatus = FALSE], applyStatus(mm, statusOfKey(k)), TRUE)
      [] OTHER -> R(mm, << >>, TRUE)

\* handleSelectMode: the keys that act on a non-empty selection.
handleSelectMode(mm, k) ==
    CASE k \in {"ctrl+c", "q"} -> R(mm, <<quitCmd>>, TRUE)
      [] k = "s" -> R([mm EXCEPT !.settingStatus = TRUE], << >>, TRUE)
      [] k = "esc" -> R([mm EXCEPT !.selected = {}], << >>, TRUE)
      [] k = "~" ->
           R(mm, <<cmdBatchSetStatus(mm, mm.selected, cycleTarget(firstSelectedPlan(mm).status))>>, TRUE)
      [] k \in {"0", "1", "2", "3"} ->
           R(mm, <<cmdBatchSetStatus(mm, mm.selected, statusOfKey(k))>>, TRUE)
      [] k = "l" -> R(openLabelModal(mm, TRUE), << >>, TRUE)
      [] k = "a" -> R([mm EXCEPT !.selected = @ \cup FilesOf(mm.items)], << >>, TRUE)
      [] k = "x" ->
           R(IF SelectedItem(mm) = None THEN mm
             ELSE [mm EXCEPT !.selected =
                      IF SelectedItem(mm).file \in @ THEN @ \ {SelectedItem(mm).file}
                      ELSE @ \cup {SelectedItem(mm).file}],
             << >>, TRUE)
      [] OTHER -> R(mm, << >>, FALSE)

\* One step of the label cycle: the index and filter after idx, going
\* forward (]) or backward ([) through "" -> labels[0] -> ... -> "".
cycleStep(labels, idx, cur, forward) ==
    IF forward
    THEN IF idx < Len(labels) - 1 THEN [idx |-> idx + 1, filter |-> labels[idx + 2]]
         ELSE [idx |-> -1, filter |-> ""]
    ELSE IF idx > 0 THEN [idx |-> idx - 1, filter |-> labels[idx]]
         ELSE IF idx = 0 \/ cur /= "" THEN [idx |-> -1, filter |-> ""]
         ELSE [idx |-> Len(labels) - 1, filter |-> labels[Len(labels)]]

\* The loop "for tried <= len(labels)": returns the handled result as soon
\* as a candidate shows plans (or is ""), and not-handled when it runs out.
RECURSIVE cycleLoop(_, _, _, _, _, _)
cycleLoop(mm, labels, idx, cur, forward, tried) ==
    IF tried > Len(labels) THEN R(mm, << >>, FALSE)
    ELSE LET st == cycleStep(labels, idx, cur, forward)
             m1 == [mm EXCEPT !.labelFilter = st.filter]
             visible == visiblePlans(m1)
         IN IF Len(visible) > 0 \/ m1.labelFilter = ""
            THEN LET m2 == ResetSelected(SetItems(m1, visible))
                     m3 == showCached([m2 EXCEPT !.prevIndex = 0])
                 IN R(m3, renderWindow(m3), TRUE)
            ELSE cycleLoop(m1, labels, st.idx, st.filter, forward, tried + 1)

\* case NextLabel / PrevLabel of handleKeyMsg.
labelCycle(mm, forward) ==
    LET labels == recentLabels(planSource(mm))
        found == {i \in DOMAIN labels : labels[i] = mm.labelFilter}
        idx == IF found = {} THEN -1 ELSE (CHOOSE i \in found : TRUE) - 1
    IN IF Len(labels) > 0 THEN cycleLoop(mm, labels, idx, mm.labelFilter, forward, 0)
       ELSE R(mm, << >>, FALSE)

\* A toggle that flips the flag and leaves the list as it was.
toggleDoneNoRefresh(mm) ==
    R([mm EXCEPT !.showDone = ~mm.showDone,
                 !.cfgShowAll = IF mm.demoActive THEN @ ELSE ~mm.showDone], << >>, TRUE)

\* case ToggleDone of handleKeyMsg (config save included in cfgShowAll).
toggleDone(mm) ==
    LET m1 == [mm EXCEPT !.showDone = ~mm.showDone,
                         !.cfgShowAll = IF mm.demoActive THEN @ ELSE ~mm.showDone]
        m2 == ResetSelected(SetItems(m1, visiblePlans(m1)))
    IN R(showCached(m2), << >>, TRUE)

\* case "esc" of the list pane: clear showDone and the label filter.
escFilters(mm) ==
    LET m1 == [mm EXCEPT !.showDone = FALSE, !.labelFilter = "",
                         !.cfgShowAll = IF mm.demoActive THEN @ ELSE FALSE]
    IN R(ResetSelected(SetItems(m1, visiblePlans(m1))), << >>, TRUE)

\* undoKey sending the status the plan has now instead of the old one.
undoKeyToNewStatus(mm) ==
    R([mm EXCEPT !.lastStatusChange = None, !.undoFiles = << >>],
      <<cmdSetStatus(mm, mm.lastStatusChange.newPlan, mm.lastStatusChange.newPlan.status)>>,
      TRUE)

\* case key.Matches(msg, m.keys.Undo), inside its guard.
undoKey(mm) ==
    R([mm EXCEPT !.lastStatusChange = None, !.undoFiles = << >>],
      <<cmdSetStatus(mm, mm.lastStatusChange.newPlan, mm.lastStatusChange.oldPlan.status)>>,
      TRUE)

\* The switch "List pane keys" of handleKeyMsg, for the keys modelled.
listPaneKey(mm, k) ==
    LET filtering == SettingFilter(mm)
        item == SelectedItem(mm)
        unhandled == R(mm, << >>, FALSE)
    IN CASE k = "ctrl+c" -> R(mm, <<quitCmd>>, TRUE)
         [] k = "q" -> IF ~filtering THEN R(mm, <<quitCmd>>, TRUE) ELSE unhandled
         [] k = "?" -> IF ~filtering THEN R([mm EXCEPT !.helpShowAll = TRUE], << >>, TRUE)
                       ELSE unhandled
         [] k = "tab" -> IF ~filtering THEN R([mm EXCEPT !.focused = "preview"], << >>, TRUE)
                         ELSE unhandled
         [] k = "s" -> IF ~filtering /\ item /= None
                       THEN R([mm EXCEPT !.settingStatus = TRUE], << >>, TRUE) ELSE unhandled
         [] k = "#" -> IF ~filtering /\ item /= None
                       THEN R([mm EXCEPT !.confirmDelete = TRUE,
                                         !.notification = deletePrompt(item.file)],
                              << >>, TRUE)
                       ELSE unhandled
         [] k = "esc" -> IF ~filtering /\ (mm.showDone \/ mm.labelFilter /= "")
                         THEN escFilters(mm) ELSE unhandled
         [] k = "~" -> IF ~filtering /\ item /= None
                       THEN R(mm, <<cmdSetStatus(mm, item, cycleTarget(item.status))>>, TRUE)
                       ELSE unhandled
         [] k \in {"0", "1", "2", "3"} ->
                IF ~filtering /\ item /= None
                THEN IF item.status = statusOfKey(k) THEN R(mm, << >>, TRUE)
                     ELSE R(mm, <<cmdSetStatus(mm, item, statusOfKey(k))>>, TRUE)
                ELSE unhandled
         [] k = "u" -> IF ~filtering /\ mm.lastStatusChange /= None THEN undoKey(mm)
                       ELSE unhandled
         [] k = "a" -> IF ~filtering THEN toggleDone(mm) ELSE unhandled
         [] k = "l" -> IF ~filtering /\ item /= None
                       THEN R(openLabelModal(mm, FALSE), << >>, TRUE) ELSE unhandled
         [] k \in {"]", "["} -> IF ~filtering THEN labelCycle(mm, k = "]") ELSE unhandled
         [] k = "x" -> IF ~filtering /\ item /= None
                       THEN R([mm EXCEPT !.selected = @ \cup {item.file}], << >>, FALSE)
                       ELSE unhandled
         [] OTHER -> unhandled

\* The "Preview pane: scrolling" block of handleKeyMsg: it swallows every key.
previewPaneKey(mm, k) ==
    CASE k \in {"j", "down"} -> R(ScrollDown(mm), << >>, TRUE)
      [] k \in {"k", "up"} -> R(ScrollUp(mm), << >>, TRUE)
      [] k = "u" -> R(ScrollUp(mm), << >>, TRUE)
      [] k = "tab" -> R([mm EXCEPT !.focused = "list"], << >>, TRUE)
      [] k = "?" -> R([mm EXCEPT !.helpShowAll = TRUE], << >>, TRUE)
      [] k \in {"q", "ctrl+c"} -> R(mm, <<quitCmd>>, TRUE)
      [] OTHER -> R(mm, << >>, TRUE)

\* The "Release notes modal" and "Help modal" blocks of handleKeyMsg.
releaseNotesKey(mm, k) ==
    CASE k = "ctrl+c" -> R(mm, <<quitCmd>>, TRUE)
      [] k \in {"q", "esc", "enter"} ->
            R([mm EXCEPT !.releaseNotesOn = FALSE], <<markReleaseNotesSeen>>, TRUE)
      [] OTHER -> R(mm, << >>, TRUE)
helpKey(mm, k) ==
    CASE k \in {"?", "esc"} -> R([mm EXCEPT !.helpShowAll = FALSE], << >>, TRUE)
      [] k \in {"q", "ctrl+c"} -> R(mm, <<quitCmd>>, TRUE)
      [] OTHER -> R(mm, << >>, TRUE)

\* handleKeyMsg for every key but the settings key and the demo key (see
\* demoToggle): release notes, scroll keys, help, the editors and the
\* confirmation, select mode, then the focused pane.
handleKeyMsg(mm, k) ==
    IF mm.releaseNotesOn THEN releaseNotesKey(mm, k)
    ELSE IF /\ k \in {" ", "B"} /\ ~mm.helpShowAll /\ ~mm.confirmDelete /\ ~mm.settingStatus
            /\ ~mm.settingLabels /\ ~SettingFilter(mm)
    THEN R(IF k = " " THEN ScrollDown(mm) ELSE ScrollUp(mm), << >>, TRUE)
    ELSE IF mm.helpShowAll THEN helpKey(mm, k)
    ELSE IF mm.settingLabels THEN handleLabelModal(mm, IF k = "ctrl+c" THEN k ELSE "type", k)
    ELSE IF mm.settingStatus THEN handleStatusModal(mm, k)
    ELSE IF mm.confirmDelete THEN handleDeleteConfirm(mm, k)
    ELSE LET sel == IF mm.selected /= {} THEN handleSelectMode(mm, k) ELSE R(mm, << >>, FALSE)
         IN IF sel.handled THEN sel
            ELSE IF mm.focused = "preview" /\ ~SettingFilter(mm) THEN previewPaneKey(mm, k)
            ELSE listPaneKey(mm, k)

\* list.Update for a key: handleFiltering while the search input is open,
\* handleBrowsing otherwise.
listUpdateKey(mm, k) ==
    IF mm.filterState = "filtering"
    THEN IF k = "esc" THEN [mm EXCEPT !.filterState = "unfiltered", !.filteredItems = << >>]
         ELSE mm
    ELSE CASE k \in {"j", "down"} -> CursorDown(mm)
           [] k \in {"k", "up"} -> CursorUp(mm)
           [] k = "/" -> [mm EXCEPT !.filterState = "filtering", !.index = 0,
                                    !.filteredItems = mm.items]
           [] k = "esc" -> IF mm.filterState = "applied"
                           THEN [mm EXCEPT !.filterState = "unfiltered", !.filteredItems = << >>]
                           ELSE mm
           [] OTHER -> mm

\* The end of Update, reached by messages no case returned for: the search
\* bracket around list.Update, then the cursor-change check.
updateTail(mm, cmds, isKey, k) ==
    LET wasSearching == SettingFilter(mm) \/ IsFiltered(mm)
        m1 == IF isKey /\ ~wasSearching /\ k = "/" THEN SetItems(mm, planSource(mm)) ELSE mm
        m2 == IF isKey THEN listUpdateKey(m1, k) ELSE m1
        isSearching == SettingFilter(m2) \/ IsFiltered(m2)
        m3 == IF wasSearching /\ ~isSearching THEN SetItems(m2, visiblePlans(m2)) ELSE m2
    IN IF m3.index /= m3.prevIndex
       THEN LET m4 == showCached([m3 EXCEPT !.prevIndex = m3.index])
            IN R(m4, cmds \o renderWindow(m4), TRUE)
       ELSE R(m3, cmds, TRUE)

\* Update for a tea.KeyMsg.
updateKey(mm, k) ==
    LET h == handleKeyMsg(mm, k)
    IN IF h.handled THEN h ELSE updateTail(h.m, << >>, TRUE, k)

\* --------------------------------------------------------- message handlers
\* case CopyFile of the list pane: clipboard write, Copied! indicator, timer.
copyKey(mm, clipboardOk) ==
    IF mm.focused = "preview" /\ ~SettingFilter(mm) THEN R(mm, << >>, TRUE)
    ELSE IF SettingFilter(mm) \/ mm.demoActive \/ SelectedItem(mm) = None
    THEN updateTail(mm, << >>, TRUE, "C")
    ELSE IF ~clipboardOk THEN R(mm, <<[kind |-> "err"]>>, TRUE)
    ELSE R([mm EXCEPT !.copiedFiles = {SelectedItem(mm).file}, !.copiedID = @ + 1],
           <<tick([type |-> "copiedClear", id |-> mm.copiedID + 1])>>, TRUE)

\* case tea.MouseMsg: a wheel press over the list (overList) or the preview.
updateMouse(mm, overList, down) ==
    LET m1 == IF overList THEN (IF down THEN CursorDown(mm) ELSE CursorUp(mm))
              ELSE (IF down THEN ScrollDown(mm) ELSE ScrollUp(mm))
    IN IF overList /\ m1.index /= m1.prevIndex
       THEN LET m2 == showCached([m1 EXCEPT !.prevIndex = m1.index])
            IN R(m2, renderWindow(m2), TRUE)
       ELSE R(m1, << >>, TRUE)

\* The inner preview width a terminal width gives, clamped as in Update.
innerPreviewW(width) ==
    LET w == width - ((width * 40) \div 100) - 2 IN IF w < 10 THEN 10 ELSE w

\* case tea.WindowSizeMsg: it does not return, so the end of Update follows.
updateWindowSize(mm, width) ==
    LET m1 == [mm EXCEPT !.width = width, !.ready = TRUE]
        inner == innerPreviewW(width)
        m2 == IF ~m1.prerendered \/ m1.previewWidth /= inner
              THEN [m1 EXCEPT !.prerendered = TRUE, !.previewWidth = inner,
                              !.previewCache = << >>]
              ELSE m1
        cmds == IF ~m1.prerendered \/ m1.previewWidth /= inner THEN renderWindow(m2) ELSE << >>
    IN updateTail(m2, cmds, FALSE, "")

\* m.previewCache[file] = content
cachePut(cache, file, content) ==
    [f \in DOMAIN cache \cup {file} |-> IF f = file THEN content ELSE cache[f]]
\* delete(m.previewCache, file)
cacheDelete(cache, file) == [f \in DOMAIN cache \ {file} |-> cache[f]]

\* case planContentMsg
updatePlanContent(mm, msg) ==
    LET isRefresh == msg.file \in mm.refreshing
        m1 == [mm EXCEPT !.refreshing = @ \ {msg.file},
                         !.previewCache = cachePut(@, msg.file, msg.content)]
    IN IF msg.file = selectedFile(m1)
       THEN IF isRefresh THEN R(SetYOffset(SetContent(m1, msg.content), m1.vpYOffset), << >>, TRUE)
            ELSE R(GotoTop(SetContent(m1, msg.content)), << >>, TRUE)
       ELSE R(m1, << >>, TRUE)

\* The plan list with the first plan of that file replaced by p.
replaceFirst(plans, p) ==
    LET i == IndexOfFile(plans, p.file)
    IN IF i < 0 THEN plans ELSE [plans EXCEPT ![i + 1] = p]

\* A timer that carries the id read before "m.undoID++".
undoTickIdBeforeIncrement(mm) == mm.undoID - 1

\* The id an undo timer started by statusUpdatedMsg carries.
undoTickId(mm) == mm.undoID

\* case statusUpdatedMsg
updateStatusUpdated(mm, msg) ==
    LET m1 == [mm EXCEPT !.lastStatusChange = [oldPlan |-> msg.oldPlan, newPlan |-> msg.newPlan]]
        m2 == writePlanInPlace(m1, replaceFirst(planSource(m1),
                                             [msg.newPlan EXCEPT !.modified = NowTime]))
        m3 == selectFile(SetItems(m2, visiblePlans(m2)), msg.newPlan.file)
        label == IF msg.newPlan.status = "" THEN "unset" ELSE msg.newPlan.status
        m4 == [m3 EXCEPT !.undoFiles = cachePut(@, msg.newPlan.file, label),
                         !.undoID = @ + 1]
    IN R(m4, <<tick([type |-> "undoExpired", id |-> undoTickId(m4)])>>, TRUE)

\* The condition under which undoExpiredMsg clears the undo record.
undoExpiredApplies(mm, msg) == mm.lastStatusChange /= None /\ msg.id = mm.undoID

\* The list refresh shared by undoExpiredMsg and batchLingerExpiredMsg.
refreshAfterExpiry(mm) ==
    LET visible == visiblePlans(mm)
        m1 == SetItems(mm, visible)
        m2 == IF mm.index >= Len(visible) /\ Len(visible) > 0
              THEN Select(m1, Len(visible) - 1) ELSE m1
    IN pruneSelection(m2)

\* case undoExpiredMsg
updateUndoExpired(mm, msg) ==
    IF undoExpiredApplies(mm, msg)
    THEN R(refreshAfterExpiry([mm EXCEPT !.lastStatusChange = None, !.undoFiles = << >>]),
           << >>, TRUE)
    ELSE R(mm, << >>, TRUE)

\* case batchLingerExpiredMsg
updateBatchLingerExpired(mm, msg) ==
    IF mm.batchKeepFiles /= {} /\ msg.id = mm.batchLingerID
    THEN R(refreshAfterExpiry([mm EXCEPT !.batchKeepFiles = {}]), << >>, TRUE)
    ELSE R(mm, << >>, TRUE)

\* case batchDoneMsg
updateBatchDone(mm, msg) ==
    LET m1 == [assignPlanSource(mm, sortPlans(msg.plans)) EXCEPT !.batchKeepFiles = msg.files]
        m2 == [SetItems(m1, visiblePlans(m1)) EXCEPT !.previewCache = << >>,
                                                     !.prerendered = TRUE]
        n == setNotification(m2, msg.message)
        m3 == [n.m EXCEPT !.batchLingerID = @ + 1, !.selected = {}]
    IN R(m3, renderWindow(m2) \o n.cmds
             \o <<tick([type |-> "batchLingerExpired", id |-> m3.batchLingerID])>>, TRUE)

\* case labelsUpdatedMsg
updateLabelsUpdated(mm, msg) ==
    LET m1 == writePlanInPlace(mm, replaceFirst(planSource(mm), [msg.plan EXCEPT !.modified = NowTime]))
        m2 == selectFile(SetItems(m1, visiblePlans(m1)), msg.plan.file)
        n == setNotification(m2, "Labels")
    IN R(n.m, n.cmds, TRUE)

\* case labelFlashMsg
updateLabelFlash(mm) ==
    IF mm.labelFlashTick > 1
    THEN R([mm EXCEPT !.labelFlashTick = @ - 1], <<tick([type |-> "labelFlash"])>>, TRUE)
    ELSE IF mm.labelFlashTick = 1
    THEN LET m1 == [mm EXCEPT !.labelFlashTick = 0, !.settingLabels = FALSE]
         IN R(m1, applyLabelChanges(m1), TRUE)
    ELSE R(mm, << >>, TRUE)

\* case changedSpinExpiredMsg
updateChangedSpinExpired(mm, msg) ==
    IF msg.id = mm.changedSpinID THEN R([mm EXCEPT !.changedFiles = {}], << >>, TRUE)
    ELSE R(mm, << >>, TRUE)

\* case statusClearMsg
updateStatusClear(mm, msg) ==
    IF msg.id = mm.statusID THEN R([mm EXCEPT !.statusText = ""], << >>, TRUE)
    ELSE R(mm, << >>, TRUE)

\* A handler without the generation check.
updateNotificationClearAnyId(mm, msg) == R([mm EXCEPT !.notification = ""], << >>, TRUE)

\* case notificationClearMsg
updateNotificationClear(mm, msg) ==
    IF msg.id = mm.notificationID THEN R([mm EXCEPT !.notification = ""], << >>, TRUE)
    ELSE R(mm, << >>, TRUE)

\* case copiedClearMsg
updateCopiedClear(mm, msg) ==
    IF msg.id = mm.copiedID THEN R([mm EXCEPT !.copiedFiles = {}], << >>, TRUE)
    ELSE R(mm, << >>, TRUE)

\* case releaseNotesMsg, and case startupUpdateMsg with release notes.
updateReleaseNotes(mm) == R([mm EXCEPT !.releaseNotesOn = TRUE], << >>, TRUE)

\* case errMsg
updateErr(mm) == setNotification(mm, "Error")

\* The loop of fileChangedMsg over cursor +-2: the files whose cache entry
\* is deleted, and those among them that were cached (marked refreshing).
windowFiles(mm) ==
    {mm.items[i + 1].file : i \in {j \in (mm.index - 2)..(mm.index + 2) : j >= 0 /\ j < Len(mm.items)}}

\* Marks the render commands of the given files as refreshes (bookkeeping).
markRefresh(cmds, files) ==
    [i \in DOMAIN cmds |-> IF cmds[i].file \in files THEN [cmds[i] EXCEPT !.refresh = TRUE]
                            ELSE cmds[i]]

\* A fileChangedMsg handler that does not start watchDir again.
rearmWatcherNever(mm) == << >>

\* "if m.watcher != nil { cmds = append(cmds, watchDir(m.watcher)) }" at the
\* end of case fileChangedMsg, after the block that demo mode skips.
rearmWatcher(mm) == IF mm.watcher THEN <<[kind |-> "watchDir"]>> ELSE << >>

\* case fileChangedMsg: scanned is scanPlans(m.dir) at the time of handling.
updateFileChanged(mm, msg, scanned) ==
    LET rearm == rearmWatcher(mm)
    IN IF mm.demoActive THEN R(mm, rearm, TRUE)
       ELSE LET prevFile == selectedFile(mm)
                m1 == [mm EXCEPT !.selected = {}, !.allPlans = sortPlans(scanned)]
                visible == filterPlans(scanned, m1.showDone, keepFiles(m1), m1.labelFilter,
                                       m1.installed)
                m2 == selectFile(SetItems(m1, visible), prevFile)
                win == windowFiles(m2)
                m3 == [m2 EXCEPT !.refreshing = win \cap DOMAIN m2.previewCache,
                                 !.previewCache = [f \in DOMAIN @ \ win |-> @[f]]]
                changed == msg.files \cap FilesOf(scanned)
                m4 == IF changed /= {}
                      THEN [m3 EXCEPT !.changedFiles = @ \cup changed, !.changedSpinID = @ + 1]
                      ELSE m3
                n == setNotification(m4, "Updated")
                renders == markRefresh(renderWindow(m3),
                                       m3.refreshing \cap msg.files \cap {prevFile}
                                           \cap {selectedFile(m3)})
            IN IF changed /= {}
               THEN R(n.m, renders
                           \o <<tick([type |-> "changedSpinExpired", id |-> m4.changedSpinID])>>
                           \o n.cmds \o rearm, TRUE)
               ELSE R(m3, renders \o rearm, TRUE)

\* case reloadMsg
updateReload(mm, msg) ==
    LET m1 == assignPlanSource([mm EXCEPT !.selected = {}], sortPlans(msg.plans))
        visible == visiblePlans(m1)
        m2 == [SetItems(m1, visible) EXCEPT !.previewCache = << >>, !.prerendered = TRUE]
        m3 == IF Len(visible) = 0 THEN SetContent(m2, EmptyContent) ELSE m2
    IN R(m3, renderWindow(m3), TRUE)

\* Update, by message type.
Update(mm, msg, scanned) ==
    CASE msg.type = "planContent" -> updatePlanContent(mm, msg)
      [] msg.type = "statusUpdated" -> updateStatusUpdated(mm, msg)
      [] msg.type = "undoExpired" -> updateUndoExpired(mm, msg)
      [] msg.type = "batchDone" -> updateBatchDone(mm, msg)
      [] msg.type = "labelsUpdated" -> updateLabelsUpdated(mm, msg)
      [] msg.type = "labelFlash" -> updateLabelFlash(mm)
      [] msg.type = "batchLingerExpired" -> updateBatchLingerExpired(mm, msg)
      [] msg.type = "changedSpinExpired" -> updateChangedSpinExpired(mm, msg)
      [] msg.type = "statusClear" -> updateStatusClear(mm, msg)
      [] msg.type = "notificationClear" -> updateNotificationClear(mm, msg)
      [] msg.type = "copiedClear" -> updateCopiedClear(mm, msg)
      [] msg.type = "fileChanged" -> updateFileChanged(mm, msg, scanned)
      [] msg.type = "reload" -> updateReload(mm, msg)
      [] msg.type = "startupUpdate" ->
            IF msg.releaseNotes THEN updateReleaseNotes(mm) ELSE R(mm, << >>, TRUE)
      [] msg.type = "err" -> updateErr(mm)

\* ---------------------------------------------------------------- demo mode
\* demoPlans(): in-memory plans without directory and labels; the unset one
\* was modified after the fake install time.
demoPlans ==
    << mkPlan(NoDir, "a.md", "active", {}, ZeroTime),
       mkPlan(NoDir, "b.md", "", {}, NowTime),
       mkPlan(NoDir, "c.md", "done", {}, ZeroTime) >>

\* enterDemoMode
enterDemoMode(mm) ==
    LET m1 == [mm EXCEPT !.selected = {}, !.demoActive = TRUE, !.demoPlans = demoPlans,
                         !.storePlans = demoPlans, !.storeShared = TRUE,
                         !.showDone = FALSE, !.labelFilter = "",
                         !.lastStatusChange = None, !.batchKeepFiles = {}]
        m2 == ResetSelected(SetItems(m1, visiblePlans(m1)))
    IN GotoTop(SetContent([m2 EXCEPT !.prevIndex = -1, !.previewCache = << >>], LoadingContent))

\* exitDemoMode: scanned is scanPlans(m.dir) at the time of the key.
exitDemoMode(mm, scanned) ==
    LET m1 == [mm EXCEPT !.selected = {}, !.demoActive = FALSE, !.demoPlans = << >>,
                         !.storePlans = << >>, !.storeShared = FALSE,
                         !.showDone = mm.cfgShowAll, !.labelFilter = "",
                         !.lastStatusChange = None, !.batchKeepFiles = {},
                         !.allPlans = sortPlans(scanned)]
        m2 == ResetSelected(SetItems(m1, visiblePlans(m1)))
    IN GotoTop(SetContent([m2 EXCEPT !.prevIndex = -1, !.previewCache = << >>], EmptyContent))

\* The "Demo toggle" block of handleKeyMsg; outside a search it returns at once.
demoToggle(mm, scanned) ==
    IF \/ mm.releaseNotesOn \/ SettingFilter(mm) \/ IsFiltered(mm)
       \/ mm.confirmDelete \/ mm.settingStatus \/ mm.settingLabels
    THEN updateKey(mm, "d")
    ELSE LET m1 == IF mm.demoActive THEN exitDemoMode(mm, scanned) ELSE enterDemoMode(mm)
         IN R(m1, renderWindow(m1), TRUE)

\* ------------------------------------------------------------ store commands
\* setFrontmatter(path, {status}) on the files: the write, or the error of
\* os.Stat when the file is gone.
setFrontmatter(d, file, status) ==
    IF d[file].exists
    THEN [ok |-> TRUE, disk |-> [d EXCEPT ![file].status = status, ![file].modified = NowTime]]
    ELSE [ok |-> FALSE, disk |-> d]

\* setPlanStatus / demoStore.setStatus: the message the command returns.
statusUpdatedMsg(p, status) ==
    [type |-> "statusUpdated", oldPlan |-> p, newPlan |-> [p EXCEPT !.status = status]]

\* batchSetStatus (disk): setFrontmatter per file, then the files after all writes.
RECURSIVE batchWrite(_, _, _)
batchWrite(d, files, status) ==
    IF files = {} THEN d
    ELSE LET f == CHOOSE g \in files : TRUE
         IN batchWrite(setFrontmatter(d, f, status).disk, files \ {f}, status)

\* The notification text of a batch, up to the counts: with or without "(n failed)".
batchMessage(failed) == IF failed > 0 THEN "Batch (failed)" ELSE "Batch"

\* demoStore.deletePlan: the plans of "*s.plans", read when the task runs,
\* without the deleted file.
demoRemaining(plans, file) == SelectSeq(plans, LAMBDA dp : dp.file /= file)

\* demoStore.batchSetStatus: a copy of the plans with the status set on the files.
demoBatchPlans(plans, files, status) ==
    [i \in DOMAIN plans |-> IF plans[i].file \in files THEN [plans[i] EXCEPT !.status = status]
                             ELSE plans[i]]

\* setLabels / batchUpdateLabels (disk): the labels written, as sets.
applyLabelSets(existing, add, remove) == (existing \ remove) \cup add
setFileLabels(d, file, labels) ==
    IF d[file].exists
    THEN [ok |-> TRUE, disk |-> [d EXCEPT ![file].labels = labels, ![file].modified = NowTime]]
    ELSE [ok |-> FALSE, disk |-> d]
RECURSIVE batchLabelWrite(_, _, _, _)
batchLabelWrite(d, files, add, remove) ==
    IF files = {} THEN d
    ELSE LET f == CHOOSE g \in files : TRUE
         IN batchLabelWrite(setFileLabels(d, f, applyLabelSets(d[f].labels, add, remove)).disk,
                            files \ {f}, add, remove)

\* What running a dispatched command does: the files afterwards and the
\* message it posts.  cur is the demo plan array as the command reads it.
runCommand(t, d, cur) ==
    CASE t.kind = "err" -> [disk |-> d, msg |-> [type |-> "err"]]
      [] t.kind = "startupUpdate" ->
            [disk |-> d, msg |-> [type |-> "startupUpdate", releaseNotes |-> TRUE]]
      [] t.kind = "markSeen" -> [disk |-> d, msg |-> None]
      [] t.kind = "setStatus" /\ t.store = "demo" ->
            [disk |-> d, msg |-> statusUpdatedMsg(t.plan, t.status)]
      [] t.kind = "setStatus" /\ t.store = "disk" ->
            LET w == setFrontmatter(d, t.plan.file, t.status)
            IN [disk |-> w.disk,
                msg |-> IF w.ok THEN statusUpdatedMsg(t.plan, t.status) ELSE [type |-> "err"]]
      [] t.kind = "batchSetStatus" /\ t.store = "demo" ->
            [disk |-> d,
             msg |-> [type |-> "batchDone", plans |-> demoBatchPlans(cur, t.files, t.status),
                      files |-> t.files, message |-> batchMessage(0)]]
      [] t.kind = "delete" /\ t.store = "demo" ->
            [disk |-> d, msg |-> [type |-> "reload", plans |-> demoRemaining(cur, t.plan.file)]]
      [] t.kind = "delete" /\ t.store = "disk" ->
            LET d2 == [d EXCEPT ![t.plan.file].exists = FALSE]
            IN [disk |-> d2, msg |-> [type |-> "reload", plans |-> scanPlans(d2)]]
      [] t.kind = "setLabels" ->
            LET w == setFileLabels(d, t.plan.file, t.labels)
            IN [disk |-> w.disk,
                msg |-> IF w.ok THEN [type |-> "labelsUpdated", plan |-> [t.plan EXCEPT !.labels = t.labels]]
                        ELSE [type |-> "err"]]
      [] t.kind = "batchUpdateLabels" ->
            LET d2 == batchLabelWrite(d, t.files, t.add, t.remove)
                failed == Cardinality({f \in t.files : ~d[f].exists})
            IN [disk |-> d2,
                msg |-> [type |-> "batchDone", plans |-> scanPlans(d2), files |-> t.files,
                         message |-> batchMessage(failed)]]
      [] t.kind = "batchSetStatus" /\ t.store = "disk" ->
            LET d2 == batchWrite(d, t.files, t.status)
                failed == Cardinality({f \in t.files : ~d[f].exists})
            IN [disk |-> d2,
                msg |-> [type |-> "batchDone", plans |-> scanPlans(d2), files |-> t.files,
                         message |-> batchMessage(failed)]]

\* -------------------------------------------------------- frontmatter text
\* A file's text is a sequence of tokens: the line terminators LF and CR,
\* ":", " ", and words (runs of other characters; "---" is one of them).
LF == "LF"
CR == "CR"
Dashes == <<"---">>

\* strings.ReplaceAll(content, "\r\n", "\n"), then ("\r", "\n").
RECURSIVE replaceCRLF(_)
replaceCRLF(s) ==
    IF s = << >> THEN << >>
    ELSE IF Len(s) >= 2 /\ s[1] = CR /\ s[2] = LF THEN <<LF>> \o replaceCRLF(Tail(Tail(s)))
    ELSE <<Head(s)>> \o replaceCRLF(Tail(s))
replaceCR(s) == [i \in DOMAIN s |-> IF s[i] = CR THEN LF ELSE s[i]]
normalizeNewlines(s) == replaceCR(replaceCRLF(s))

\* strings.Split(content, "\n") and strings.Join(lines, "\n").
RECURSIVE splitAcc(_, _)
splitAcc(s, cur) ==
    IF s = << >> THEN <<cur>>
    ELSE IF Head(s) = LF THEN <<cur>> \o splitAcc(Tail(s), << >>)
    ELSE splitAcc(Tail(s), Append(cur, Head(s)))
splitLines(s) == splitAcc(s, << >>)
RECURSIVE joinLines(_)
joinLines(lines) ==
    IF lines = << >> THEN << >>
    ELSE IF Len(lines) = 1 THEN lines[1]
    ELSE lines[1] \o <<LF>> \o joinLines(Tail(lines))

\* strings.TrimSpace and strings.Cut(line, ":").
RECURSIVE trimLeft(_)
trimLeft(s) == IF s /= << >> /\ Head(s) \in {" ", LF, CR} THEN trimLeft(Tail(s)) ELSE s
RECURSIVE trimRight(_)
trimRight(s) ==
    IF s /= << >> /\ s[Len(s)] \in {" ", LF, CR} THEN trimRight(SubSeq(s, 1, Len(s) - 1)) ELSE s
TrimSpace(s) == trimRight(trimLeft(s))
Cut(line) ==
    LET at == {i \in DOMAIN line : line[i] = ":"}
    IN IF at = {} THEN [ok |-> FALSE, k |-> line, v |-> << >>]
       ELSE LET i == CHOOSE j \in at : \A h \in at : j <= h
            IN [ok |-> TRUE, k |-> SubSeq(line, 1, i - 1), v |-> SubSeq(line, i + 1, Len(line))]

\* A Go map[string]string as a function; m[k] = v.
mapPut(f, k, v) == [x \in DOMAIN f \cup {k} |-> IF x = k THEN v ELSE f[x]]

\* The index of the closing "---" line (counting lines from 1), or 0.
closingLine(lines) ==
    LET at == {i \in 2..Len(lines) : lines[i] = Dashes}
    IN IF at = {} THEN 0 ELSE CHOOSE j \in at : \A h \in at : j <= h

RECURSIVE parseFields(_, _, _, _)
parseFields(lines, i, last, acc) ==
    IF i > last THEN acc
    ELSE LET c == Cut(lines[i])
             k == TrimSpace(c.k)
             v == TrimSpace(c.v)
         IN parseFields(lines, i + 1, last,
                        IF c.ok /\ k /= << >> /\ v /= << >> THEN mapPut(acc, k, v) ELSE acc)

parseFrontmatter(content) ==
    LET c == normalizeNewlines(content)
        lines == splitLines(c)
        closing == closingLine(lines)
    IN IF Len(lines) < 2 \/ lines[1] /= Dashes \/ closing = 0
       THEN [fields |-> << >>, body |-> c]
       ELSE [fields |-> parseFields(lines, 2, closing - 1, << >>),
             body |-> joinLines(SubSeq(lines, closing + 1, Len(lines)))]

\* setFrontmatter: "for k, v := range updates { delete or set }".
mergeUpdates(existing, updates) ==
    [k \in (DOMAIN existing \ {u \in DOMAIN updates : updates[u] = << >>})
              \cup {u \in DOMAIN updates : updates[u] /= << >>}
        |-> IF k \in DOMAIN updates THEN updates[k] ELSE existing[k]]

\* Byte order of the words that occur in keys, for sort.Strings(extra).
WordOrder == <<"extra", "labels", "note", "project", "status">>
wordRank(w) == CHOOSE i \in DOMAIN WordOrder : WordOrder[i] = w
RECURSIVE sortKeys(_)
sortKeys(S) ==
    IF S = {} THEN << >>
    ELSE LET k == CHOOSE x \in S : \A y \in S : wordRank(x[1]) <= wordRank(y[1])
         IN <<k>> \o sortKeys(S \ {k})

\* The serialization of setFrontmatter: known keys first, then the others
\* sorted; no block at all for an empty map.
KnownKeys == << <<"status">>, <<"labels">>, <<"project">> >>
fieldLine(k, v) == k \o <<":", " ">> \o v \o <<LF>>
RECURSIVE fieldLines(_, _)
fieldLines(keys, existing) ==
    IF keys = << >> THEN << >>
    ELSE (IF Head(keys) \in DOMAIN existing /\ existing[Head(keys)] /= << >>
          THEN fieldLine(Head(keys), existing[Head(keys)]) ELSE << >>)
         \o fieldLines(Tail(keys), existing)
serializeFrontmatter(existing, body) ==
    IF DOMAIN existing /= {}
    THEN <<"---", LF>> \o fieldLines(KnownKeys, existing)
           \o fieldLines(sortKeys(DOMAIN existing \ SeqToSet(KnownKeys)), existing)
           \o <<"---", LF>> \o body
    ELSE body

\* setFrontmatter on the text of the file.
setFrontmatterText(content, updates) ==
    LET p == parseFrontmatter(content)
    IN serializeFrontmatter(mergeUpdates(p.fields, updates), p.body)

\* ------------------------------------------------------------------- state
\* m: the model object.  disk: the plan files.  tasks: commands dispatched
\* and not yet run.  inbox: messages posted (and timers pending) and not yet
\* handled.  fsEvents: files with a watcher event the adapter has not yet
\* reported.  edits: how many times another program has changed a file.
\* resizes: how many times the terminal has reported a size.  watch: the
\* watcher adapter with its clock (used by SpecWatch only).  calc: the text
\* of one plan file, as first found and as it is now, and how often it was
\* written (used by SpecFrontmatter only).
VARIABLES m, disk, tasks, inbox, fsEvents, edits, resizes, watch, calc

vars == <<m, disk, tasks, inbox, fsEvents, edits, resizes, watch, calc>>

\* The plan files at start: a.md active [x], b.md reviewed [y], c.md done.
InitDisk ==
    [f \in Files |->
        CASE f = "a.md" -> [exists |-> TRUE, status |-> "active", labels |-> {"x"}, modified |-> OldTime]
          [] f = "b.md" -> [exists |-> TRUE, status |-> "reviewed", labels |-> {"y"}, modified |-> OldTime]
          [] OTHER -> [exists |-> TRUE, status |-> "done", labels |-> {}, modified |-> OldTime]]

\* newModel(plans, dir, cfg, watcher)
newModel(plans, showAll, installed) ==
    [allPlans |-> sortPlans(plans), installed |-> installed,
     demoActive |-> FALSE, demoPlans |-> << >>,
     storePlans |-> << >>, storeShared |-> FALSE,
     items |-> filterPlans(sortPlans(plans), showAll, {}, "", installed),
     index |-> 0, filterState |-> "unfiltered", filteredItems |-> << >>,
     prevIndex |-> -1, focused |-> "list",
     width |-> 0, ready |-> FALSE, prerendered |-> FALSE, previewWidth |-> 0,
     previewCache |-> << >>, refreshing |-> {},
     vpContent |-> EmptyContent, vpYOffset |-> 0,
     showDone |-> showAll, cfgShowAll |-> showAll, labelFilter |-> "",
     selected |-> {}, lastStatusChange |-> None, undoFiles |-> << >>, undoID |-> 0,
     batchKeepFiles |-> {}, batchLingerID |-> 0,
     notification |-> "", notificationID |-> 0, statusText |-> "", statusID |-> 0,
     copiedFiles |-> {}, copiedID |-> 0, changedFiles |-> {}, changedSpinID |-> 0,
     settingLabels |-> FALSE, labelBatchMode |-> FALSE, labelChoices |-> << >>,
     labelToggled |-> << >>, labelMixed |-> {}, labelDirty |-> FALSE, labelFlashTick |-> 0,
     helpShowAll |-> FALSE, releaseNotesOn |-> FALSE, confirmDelete |-> FALSE,
     settingStatus |-> FALSE,
     watcher |-> TRUE]

\* The commands of a tea.Batch as bags.  A timer is a pending message at
\* once, and so is a render: its result depends on nothing but its arguments.
RECURSIVE BagOfSeq(_)
BagOfSeq(s) == IF s = << >> THEN EmptyBag ELSE SetToBag({Head(s)}) (+) BagOfSeq(Tail(s))
cmdsOf(cmds) == BagOfSeq(SelectSeq(cmds, LAMBDA c : c.kind \notin {"tick", "render", "quit"}))
msgsOf(cmds) ==
    LET t == SelectSeq(cmds, LAMBDA c : c.kind \in {"tick", "render"})
    IN BagOfSeq([i \in DOMAIN t |-> IF t[i].kind = "tick" THEN t[i].msg
                                     ELSE planContentMsg(t[i].file, t[i].width, t[i].refresh)])

TimerTypes == {"undoExpired", "batchLingerExpired", "changedSpinExpired", "statusClear",
               "notificationClear", "copiedClear"}
\* Commands running and results waiting (the watcher and pending timers are
\* not counted).
Busy == BagCardinality(tasks) - CopiesIn([kind |-> "watchDir"], tasks)
          - CopiesIn([kind |-> "startupUpdate"], tasks)
          + Cardinality({x \in BagToSet(inbox) : x.type \notin TimerTypes})
\* The user presses a key when nothing is running and no result is waiting.
Quiet == Busy = 0
\* Status writes asked for so far that have or will become a status result.
StatusGen ==
    m.undoID + m.batchLingerID
      + Cardinality({t \in BagToSet(tasks) : t.kind \in {"setStatus", "batchSetStatus"}})
      + Cardinality({x \in BagToSet(inbox) : x.type \in {"statusUpdated", "batchDone"}})
\* Timer generations started or about to be: status results, copies, edits.
TimerGen == StatusGen + m.copiedID + edits
Dispatches(cmds) == \E i \in DOMAIN cmds : cmds[i].kind \in {"setStatus", "batchSetStatus"}

\* Update returned r: the model is replaced and the commands start.
Return(r) ==
    /\ m' = r.m
    /\ tasks' = tasks (+) cmdsOf(r.cmds)
    /\ inbox' = inbox (+) msgsOf(r.cmds)

\* The adapter at start: nothing queued, no write of our own yet (the zero
\* lastSelfWrite is long ago), nothing reported or dropped yet.
InitWatch ==
    [now |-> 0, lastSelfWrite |-> 0 - SelfWriteWindow, writes |-> 0, chan |-> << >>,
     state |-> "idle", wakeAt |-> 0, heard |-> {}, emitted |-> {}, dropped |-> {}]

\* No file text under study.
InitCalc == [orig |-> << >>, text |-> << >>, writes |-> 0]

\* Program start: newModel on the scanned files, Init() arms the watcher.
InitFrom(d) ==
    /\ disk = d
    /\ m = newModel(scanPlans(d), FALSE, InstallTime)
    /\ tasks = SetToBag({[kind |-> "watchDir"]})
    /\ inbox = EmptyBag
    /\ fsEvents = {}
    /\ edits = 0
    /\ resizes = 0
    /\ watch = InitWatch

Init == InitFrom(InitDisk) /\ calc = InitCalc

\* The plan files with a label shared by the two visible plans: a.md [x],
\* b.md [x], c.md done [y].
SharedLabelDisk ==
    [f \in Files |->
        CASE f = "a.md" -> [exists |-> TRUE, status |-> "active", labels |-> {"x"}, modified |-> OldTime]
          [] f = "b.md" -> [exists |-> TRUE, status |-> "reviewed", labels |-> {"x"}, modified |-> OldTime]
          [] OTHER -> [exists |-> TRUE, status |-> "done", labels |-> {"y"}, modified |-> OldTime]]
InitLabels == InitFrom(SharedLabelDisk) /\ calc = InitCalc

\* A key in the label editor.
LabelKey(kind, l) ==
    /\ Quiet /\ m.settingLabels
    /\ m.notificationID < MaxGen
    /\ Return(handleLabelModal(m, kind, l))
    /\ UNCHANGED <<disk, fsEvents, edits, resizes, watch, calc>>

\* The user presses key k.
Key(k) ==
    LET r == updateKey(m, k)
    IN /\ Quiet
       /\ Dispatches(r.cmds) => TimerGen < MaxGen
       /\ Return(r)
       /\ UNCHANGED <<disk, fsEvents, edits, resizes, watch, calc>>

\* The user turns the mouse wheel over the list or over the preview.
MouseWheel(overList, down) ==
    /\ Quiet
    /\ Return(updateMouse(m, overList, down))
    /\ UNCHANGED <<disk, fsEvents, edits, resizes, watch, calc>>

\* The user presses C; the clipboard write succeeds or fails.
CopyKey(clipboardOk) ==
    /\ Quiet
    /\ IF clipboardOk THEN TimerGen < MaxGen ELSE m.notificationID < MaxGen
    /\ Return(copyKey(m, clipboardOk))
    /\ UNCHANGED <<disk, fsEvents, edits, resizes, watch, calc>>

\* The user presses d (demo mode on or off).
DemoKey ==
    /\ Quiet
    /\ Return(demoToggle(m, scanPlans(disk)))
    /\ UNCHANGED <<disk, fsEvents, edits, resizes, watch, calc>>

\* The terminal reports its size.
Resize(w) ==
    /\ resizes < MaxResizes
    /\ resizes' = resizes + 1
    /\ Return(updateWindowSize(m, w))
    /\ UNCHANGED <<disk, fsEvents, edits, watch, calc>>

\* A dispatched command runs and posts its message.
\* What a running task finds behind the demo store: the slice captured by
\* batchSetStatus when it was built, the slice "*s.plans" for deletePlan.
storeRead(mm, t) ==
    CASE t.kind = "batchSetStatus" -> t.plans
      [] t.kind = "delete" -> mm.storePlans
      [] OTHER -> << >>

RunTask ==
    \E t \in BagToSet(tasks) :
       /\ t.kind /= "watchDir"
       /\ LET out == runCommand(t, disk, storeRead(m, t))
          IN /\ disk' = out.disk
             /\ inbox' = IF out.msg = None THEN inbox ELSE inbox (+) SetToBag({out.msg})
       /\ tasks' = tasks (-) SetToBag({t})
       /\ UNCHANGED <<m, fsEvents, edits, resizes, watch, calc>>

\* The event loop handles the posted message msg.
DeliverMsg(msg) ==
    /\ msg \in BagToSet(inbox)
    /\ LET r == Update(m, msg, scanPlans(disk))
       IN /\ m' = r.m
          /\ tasks' = tasks (+) cmdsOf(r.cmds)
          /\ inbox' = (inbox (-) SetToBag({msg})) (+) msgsOf(r.cmds)
    /\ UNCHANGED <<disk, fsEvents, edits, resizes, watch, calc>>

\* A command's result is handled; a pending timer fires and is handled.
DeliverResult == \E msg \in BagToSet(inbox) : msg.type \notin TimerTypes /\ DeliverMsg(msg)
TimerFires == \E msg \in BagToSet(inbox) : msg.type \in TimerTypes /\ DeliverMsg(msg)

\* Another program rewrites (kinds "unlabel", "done") or removes a plan file.
ExternalEdit(kinds) ==
    /\ edits < MaxEdits
    /\ \E f \in {g \in Files : disk[g].exists}, kind \in kinds :
          /\ disk' = CASE kind = "unlabel" -> [disk EXCEPT ![f].labels = {}, ![f].modified = NowTime]
                        [] kind = "done" -> [disk EXCEPT ![f].status = "done", ![f].modified = NowTime]
                        [] OTHER -> [disk EXCEPT ![f].exists = FALSE]
          /\ fsEvents' = fsEvents \cup {f}
    /\ edits' = edits + 1
    /\ UNCHANGED <<m, tasks, inbox, resizes, watch, calc>>

\* watchDir, without its clock: the armed adapter reports the changed files.
WatchEmit ==
    /\ fsEvents /= {}
    /\ [kind |-> "watchDir"] \in BagToSet(tasks)
    /\ tasks' = tasks (-) SetToBag({[kind |-> "watchDir"]})
    /\ inbox' = inbox (+) SetToBag({[type |-> "fileChanged", files |-> fsEvents]})
    /\ fsEvents' = {}
    /\ UNCHANGED <<m, disk, edits, resizes, watch, calc>>

\* -------------------------------------------------- watcher adapter, timed
\* "time.Since(time.UnixMilli(lastSelfWrite.Load())) < 500*time.Millisecond"
selfWriteRecentAsSleep(now, last) == now - last < CoalesceSleep
selfWriteRecent(now, last) == now - last < SelfWriteWindow

\* An event as the adapter receives it: when, and the latest write of our
\* own before that (bookkeeping for the claims).
heardEvent(ev, w) == [file |-> ev, at |-> w.now, lastWrite |-> w.lastSelfWrite]

\* 100 ms pass.
Tick ==
    /\ watch.now < MaxClock
    /\ watch' = [watch EXCEPT !.now = @ + 1]
    /\ UNCHANGED <<m, disk, tasks, inbox, fsEvents, edits, resizes, calc>>

\* setFrontmatter / writeCommentBody: lastSelfWrite.Store(now), then the
\* write, which the file system reports to the watcher.
CoreWrite ==
    /\ watch.writes < MaxWrites
    /\ \E f \in Files :
          watch' = [watch EXCEPT !.lastSelfWrite = watch.now, !.writes = @ + 1,
                                 !.chan = Append(@, f)]
    /\ UNCHANGED <<m, disk, tasks, inbox, fsEvents, edits, resizes, calc>>

\* Another program writes a plan file; the file system reports it.
OutsideWrite ==
    /\ edits < MaxEdits
    /\ edits' = edits + 1
    /\ \E f \in Files : watch' = [watch EXCEPT !.chan = Append(@, f)]
    /\ UNCHANGED <<m, disk, tasks, inbox, fsEvents, resizes, calc>>

\* watchDir: "case ev := <-watcher.Events" for a .md write, then the sleep.
WatchReceive ==
    /\ [kind |-> "watchDir"] \in BagToSet(tasks)
    /\ watch.state = "idle" /\ watch.chan /= << >>
    /\ watch' = [watch EXCEPT !.chan = Tail(@), !.state = "sleeping",
                               !.wakeAt = watch.now + CoalesceSleep,
                               !.heard = {heardEvent(Head(watch.chan), watch)}]
    /\ UNCHANGED <<m, disk, tasks, inbox, fsEvents, edits, resizes, calc>>

\* watchDir after the sleep: drain the channel, then drop the batch if a
\* write of our own is recent, else return fileChangedMsg.
WatchWake ==
    /\ watch.state = "sleeping" /\ watch.now >= watch.wakeAt
    /\ LET batch == watch.heard \cup {heardEvent(watch.chan[i], watch) : i \in DOMAIN watch.chan}
           rec == [events |-> batch, checkedAt |-> watch.now]
       IN IF selfWriteRecent(watch.now, watch.lastSelfWrite)
          THEN /\ watch' = [watch EXCEPT !.chan = << >>, !.state = "idle", !.heard = {},
                                         !.dropped = @ \cup {rec}]
               /\ UNCHANGED <<tasks, inbox>>
          ELSE /\ watch' = [watch EXCEPT !.chan = << >>, !.state = "idle", !.heard = {},
                                         !.emitted = @ \cup {rec}]
               /\ tasks' = tasks (-) SetToBag({[kind |-> "watchDir"]})
               /\ inbox' = inbox (+) SetToBag({[type |-> "fileChanged",
                                                files |-> {e.file : e \in batch}]})
    /\ UNCHANGED <<m, disk, fsEvents, edits, resizes, calc>>

\* ---------------------------------------------------- filterPlans, inputs
\* The arguments of one filterPlans call: up to MaxPlans plans of one
\* directory (or of none, as demo plans are), each unset, active or done,
\* labelled or not, modified before or at the install time.
FilterFiles == <<"a.md", "b.md", "c.md", "e.md">>
FilterPlansOf(dir, n) ==
    {[i \in 1..n |-> mkPlan(dir, FilterFiles[i], c[i][1], c[i][2], c[i][3])] :
        c \in [1..n -> {"", "active", "done"} \X {{}, {"x"}} \X {OldTime, InstallTime}]}
KeepSets == {{}, {"a.md"}, {"d/a.md"}, {"d/a.md", "b.md"}}
FilterInputs ==
    {[plans |-> ps, showDone |-> sd, keep |-> ks, labelFilter |-> lf, installed |-> inst] :
        ps \in UNION {FilterPlansOf(dir, n) : dir \in {NoDir, PlansDir}, n \in 0..MaxPlans},
        sd \in BOOLEAN, ks \in KeepSets, lf \in {"", "x"}, inst \in {ZeroTime, InstallTime}}

\* calc.orig holds the arguments, calc.text the result once computed.
InitFilter ==
    /\ InitFrom(InitDisk)
    /\ \E in \in FilterInputs : calc = [orig |-> in, text |-> << >>, writes |-> 0]

ApplyFilter ==
    /\ calc.writes = 0
    /\ calc' = [calc EXCEPT !.text = filterPlans(calc.orig.plans, calc.orig.showDone, calc.orig.keep,
                                                 calc.orig.labelFilter, calc.orig.installed),
                            !.writes = 1]
    /\ UNCHANGED <<m, disk, tasks, inbox, fsEvents, edits, resizes, watch>>

\* ------------------------------------------------------------ label text
\* The value of the labels key as text: words, "," and " ".  A label is a
\* sequence of tokens as well.
RECURSIVE splitOn(_, _, _)
splitOn(s, sep, cur) ==
    IF s = << >> THEN <<cur>>
    ELSE IF Head(s) = sep THEN <<cur>> \o splitOn(Tail(s), sep, << >>)
    ELSE splitOn(Tail(s), sep, Append(cur, Head(s)))
\* strings.ToLower on the words in use.
ToLower(s) == [i \in DOMAIN s |-> CASE s[i] = "X" -> "x" [] s[i] = "Y" -> "y" [] OTHER -> s[i]]
\* sort.Strings on labels: by the first word, a stable insertion.
labelKey(l) == LabelRank(l[1])
RECURSIVE insertLabel(_, _)
insertLabel(l, sorted) ==
    IF sorted = << >> THEN <<l>>
    ELSE IF labelKey(l) < labelKey(Head(sorted)) THEN <<l>> \o sorted
    ELSE <<Head(sorted)>> \o insertLabel(l, Tail(sorted))
RECURSIVE sortStrings(_)
sortStrings(ls) ==
    IF ls = << >> THEN << >> ELSE insertLabel(ls[Len(ls)], sortStrings(SubSeq(ls, 1, Len(ls) - 1)))
RECURSIVE cleanParts(_)
cleanParts(parts) ==
    IF parts = << >> THEN << >>
    ELSE LET q == ToLower(TrimSpace(Head(parts)))
         IN (IF q /= << >> THEN <<q>> ELSE << >>) \o cleanParts(Tail(parts))
parseLabels(s) == IF s = << >> THEN << >> ELSE sortStrings(cleanParts(splitOn(s, ",", << >>)))

\* labelsString: strings.Join(labels, ", ").
RECURSIVE labelsString(_)
labelsString(labels) ==
    IF labels = << >> THEN << >>
    ELSE IF Len(labels) = 1 THEN labels[1]
    ELSE labels[1] \o <<",", " ">> \o labelsString(Tail(labels))

\* applyLabelChanges of the commands: existing without remove and without
\* repeats, then the labels of add not yet there, in the order given.
RECURSIVE appendNew(_, _, _)
appendNew(result, ls, removeSet) ==
    IF ls = << >> THEN result
    ELSE appendNew(IF Head(ls) \notin removeSet /\ Head(ls) \notin SeqToSet(result)
                   THEN Append(result, Head(ls)) ELSE result,
                   Tail(ls), removeSet)
applyLabelChangesList(existing, add, remove) ==
    appendNew(appendNew(<< >>, existing, SeqToSet(remove)), add, {})

\* The labels values on file at the start: up to MaxParts parts between
\* commas, written by hand.
LabelParts == {<<"x">>, <<"y">>, <<"X">>, <<" ", "y", " ">>, << >>}
RECURSIVE joinParts(_)
joinParts(parts) ==
    IF parts = << >> THEN << >>
    ELSE IF Len(parts) = 1 THEN parts[1]
    ELSE parts[1] \o <<",">> \o joinParts(Tail(parts))
LabelTexts == {joinParts(ps) : ps \in UNION {[1..n -> LabelParts] : n \in 0..MaxParts}}
\* The add and remove lists of a batch.
LabelLists == {<< >>, << <<"x">> >>, << <<"y">> >>, << <<"z">> >>}

\* calc.orig is the labels value on file, calc.text the label list last
\* read from it (scanPlans) or stored into it.
InitLabelText ==
    /\ InitFrom(InitDisk)
    /\ \E s \in LabelTexts : calc = [orig |-> s, text |-> parseLabels(s), writes |-> 0]

\* batchUpdateLabels on the file: read, apply, store.
BatchUpdateLabels(add, remove) ==
    LET newLabels == applyLabelChangesList(parseLabels(calc.orig), add, remove)
    IN /\ calc.writes < MaxCalls
       /\ add /= << >> \/ remove /= << >>
       /\ calc' = [orig |-> labelsString(newLabels), text |-> newLabels, writes |-> calc.writes + 1]
       /\ UNCHANGED <<m, disk, tasks, inbox, fsEvents, edits, resizes, watch>>

\* ------------------------------------------------ frontmatter text, inputs
\* The lines a file text is made of, the line terminator it uses, and
\* whether its last line is terminated.
LineTokens == {Dashes, <<"status", ":", " ", "done">>, <<"extra", ":", "x">>, <<"text">>}
Terminators == {<<LF>>, <<CR, LF>>, <<CR>>}
RECURSIVE fileText(_, _, _)
fileText(lines, term, final) ==
    IF lines = << >> THEN << >>
    ELSE IF Len(lines) = 1 THEN lines[1] \o (IF final THEN term ELSE << >>)
    ELSE lines[1] \o term \o fileText(Tail(lines), term, final)
Texts ==
    {fileText(ls, t, fin) : ls \in UNION {[1..n -> LineTokens] : n \in 0..MaxLines},
                            t \in Terminators, fin \in BOOLEAN}

\* The update maps of the writes: set the status, delete a key.
Updates == {mapPut(<< >>, <<"status">>, <<"done">>), mapPut(<< >>, <<"status">>, << >>),
            mapPut(<< >>, <<"extra">>, << >>)}

InitText ==
    /\ InitFrom(InitDisk)
    /\ \E t \in Texts : calc = [orig |-> t, text |-> t, writes |-> 0]

\* setFrontmatter(path, updates) on the file under study.
WriteFrontmatter(updates) ==
    /\ calc.writes < MaxCalls
    /\ calc' = [calc EXCEPT !.text = setFrontmatterText(@, updates), !.writes = @ + 1]
    /\ UNCHANGED <<m, disk, tasks, inbox, fsEvents, edits, resizes, watch>>

\* Terminal widths: inner preview widths 58 and 70.
Width1 == 100
Width2 == 120

\* ---------------------------------------------------------- specifications
\* Selection and label filter: select, cycle labels, move, with outside edits.
LabelKeys == {"x", "]", "[", "j", "esc"}
Next ==
    \/ \E k \in LabelKeys : Key(k)
    \/ Resize(Width1)
    \/ DeliverResult
    \/ ExternalEdit({"unlabel", "done"})
    \/ WatchEmit

Spec == Init /\ [][Next]_vars

\* Status changes and undo, search and the done toggle, in disk and demo mode.
UndoKeys == {"3", "u", "/", "esc", "a", "j"}
NextUndo ==
    \/ \E k \in UndoKeys : Key(k)
    \/ DemoKey
    \/ RunTask
    \/ DeliverResult
    \/ TimerFires

\* A tea.Tick fires after its duration and the loop handles every message
\* posted to it: a pending undo timer is handled in the end.
UndoTimerFair == \A id \in 0..(MaxGen + 1) : WF_vars(DeliverMsg([type |-> "undoExpired", id |-> id]))

SpecUndo == Init /\ [][NextUndo]_vars /\ UndoTimerFair

\* Every timer family: single and batch status changes, copies, outside edits.
NextTimers ==
    \/ \E k \in {"x", "3"} : Key(k)
    \/ CopyKey(TRUE)
    \/ RunTask
    \/ DeliverResult
    \/ TimerFires
    \/ TimerGen < MaxGen /\ ExternalEdit({"unlabel"})
    \/ WatchEmit

SpecTimers == Init /\ [][NextTimers]_vars

\* Preview refresh: one window size, cursor moves, scrolling, outside edits.
PreviewKeys == {"j", " "}
NextPreview ==
    \/ \E k \in PreviewKeys : m.ready /\ Key(k)
    \/ Resize(Width1)
    \/ DeliverResult
    \/ ExternalEdit({"unlabel", "remove"})
    \/ WatchEmit

SpecPreview == Init /\ [][NextPreview]_vars

\* Window resizes between two widths, with cursor moves.
NextResize ==
    \/ \E k \in {"j", "k"} : m.ready /\ Key(k)
    \/ \E w \in {Width1, Width2} : Resize(w)
    \/ DeliverResult

SpecResize == Init /\ [][NextResize]_vars
\* The label editor: select plans, open the editor, toggle, create, apply.
LabelEditKeys == {"x", "a", "l"}
NextLabels ==
    \/ \E k \in LabelEditKeys : Key(k)
    \/ \E l \in Labels : LabelKey("space", l) /\ l \in SeqToSet(m.labelChoices)
    \/ \E l \in Labels : LabelKey("enterTyped", l) /\ l \in SeqToSet(m.labelChoices)
    \/ \E l \in Labels : LabelKey("enter", l)
    \/ \E l \in NewLabels : LabelKey("create", l) /\ l \notin SeqToSet(m.labelChoices)
    \/ LabelKey("esc", "")
    \/ RunTask
    \/ DeliverResult

SpecLabels == InitLabels /\ [][NextLabels]_vars

\* The label editor while another program edits the plan files.
NextLabelsLive ==
    \/ \E k \in {"l", "x"} : Key(k)
    \/ \E l \in Labels : LabelKey("space", l) /\ l \in SeqToSet(m.labelChoices)
    \/ LabelKey("esc", "")
    \/ ExternalEdit({"unlabel"})
    \/ WatchEmit
    \/ RunTask
    \/ DeliverResult

SpecLabelsLive == InitLabels /\ [][NextLabelsLive]_vars

\* The overlays: help, status picker, delete confirmation, label editor,
\* and the release notes that the startup check posts when it is done.
InitModals ==
    /\ disk = InitDisk
    /\ m = newModel(scanPlans(InitDisk), FALSE, InstallTime)
    /\ tasks = SetToBag({[kind |-> "watchDir"], [kind |-> "startupUpdate"]})
    /\ inbox = EmptyBag
    /\ fsEvents = {}
    /\ edits = 0
    /\ resizes = 0
    /\ watch = InitWatch
    /\ calc = InitCalc
ModalKeys == {"?", "s", "#", "l", "esc", "x", "tab"}
NextModals ==
    \/ \E k \in ModalKeys : Key(k)
    \/ DemoKey
    \/ RunTask
    \/ DeliverResult

SpecModals == InitModals /\ [][NextModals]_vars

\* The direct status keys and the status cycle on the files of the directory.
StatusKeys == {"0", "1", "~", "j"}
NextStatus ==
    \/ \E k \in StatusKeys : Key(k)
    \/ RunTask
    \/ DeliverResult
    \/ TimerFires

SpecStatus == Init /\ [][NextStatus]_vars

\* One filterPlans call on drawn arguments.
NextFilter == ApplyFilter

SpecFilter == InitFilter /\ [][NextFilter]_vars

\* Batch label updates applied to one labels value.
NextLabelText == \E add \in LabelLists, remove \in LabelLists : BatchUpdateLabels(add, remove)

SpecLabelText == InitLabelText /\ [][NextLabelText]_vars

\* setFrontmatter applied again and again to one file text.
NextFrontmatter == \E u \in Updates : WriteFrontmatter(u)

SpecFrontmatter == InitText /\ [][NextFrontmatter]_vars

\* The watcher adapter with its clock: own writes, outside writes, the loop
\* handling what the adapter reports.
NextWatch ==
    \/ Tick
    \/ CoreWrite
    \/ OutsideWrite
    \/ WatchReceive
    \/ WatchWake
    \/ DeliverResult

SpecWatch == Init /\ [][NextWatch]_vars

\* ------------------------------------------------------------------ claims
\* C1: after every Update, every selected file belongs to a plan of the
\* visible list.
C1_SelectionInVisibleList == m.selected \subseteq FilesOf(m.items)

\* No store command is running and no result of one is waiting.
NoStatusOutstanding ==
    /\ \A t \in BagToSet(tasks) : t.kind \notin {"setStatus", "batchSetStatus", "err"}
    /\ \A x \in BagToSet(inbox) : x.type \notin {"statusUpdated", "batchDone", "err"}

CurrentUndoTick == [type |-> "undoExpired", id |-> m.undoID]

\* C3: a plan set to done while showDone is false is in the visible list
\* from its status result until the undo timer of the current generation is
\* handled (no label filter, so only its status could hide it).
C3_DonePlanStaysDuringUndoWindow ==
    ( /\ m.lastStatusChange /= None
      /\ m.lastStatusChange.newPlan.status = "done"
      /\ ~m.showDone /\ m.labelFilter = ""
      /\ CurrentUndoTick \in BagToSet(inbox) )
    => m.lastStatusChange.newPlan.file \in FilesOf(m.items)

\* C4: whenever an undo record exists, the undo timer of the current
\* generation is pending and handling it removes the record; and every undo
\* record is removed in the end.
C4_UndoTimerPending ==
    m.lastStatusChange /= None =>
        /\ CurrentUndoTick \in BagToSet(inbox)
        /\ updateUndoExpired(m, CurrentUndoTick).m.lastStatusChange = None
C4_UndoRecordExpires ==
    /\ []C4_UndoTimerPending
    /\ (m.lastStatusChange /= None) ~> (m.lastStatusChange = None)

\* A second undo record exists while the timer of the first is still pending.
C4_Witness ==
    /\ m.lastStatusChange /= None /\ m.undoID > 1
    /\ [type |-> "undoExpired", id |-> m.undoID - 1] \in BagToSet(inbox)

\* The generation id the model holds for a timer family.
currentId(mm, type) ==
    CASE type = "undoExpired" -> mm.undoID
      [] type = "batchLingerExpired" -> mm.batchLingerID
      [] type = "changedSpinExpired" -> mm.changedSpinID
      [] type = "statusClear" -> mm.statusID
      [] type = "notificationClear" -> mm.notificationID
      [] type = "copiedClear" -> mm.copiedID

TimerIds == 0..(MaxGen + MaxEdits + 1)

\* C5: for every timer family, handling a timer message whose id is not the
\* family's current generation id leaves the model unchanged and emits no
\* command.
C5_StaleTimerIgnored ==
    \A type \in TimerTypes, id \in TimerIds :
        id /= currentId(m, type) =>
            LET r == Update(m, [type |-> type, id |-> id], scanPlans(disk))
            IN r.m = m /\ r.cmds = << >>

\* A superseded timer is pending together with the timer that superseded it.
C5_Witness ==
    \E x \in BagToSet(inbox) :
        /\ x.type \in TimerTypes /\ x.id /= currentId(m, x.type)
        /\ [type |-> x.type, id |-> currentId(m, x.type)] \in BagToSet(inbox)

\* C7: the result of the re-render that fileChangedMsg issued for the
\* selected, cached plan, when the plan is still selected, is shown with the
\* viewport offset unchanged.
C7_RefreshKeepsOffset ==
    \A x \in BagToSet(inbox) :
        (x.type = "planContent" /\ x.refresh /\ x.file = selectedFile(m)) =>
            updatePlanContent(m, x).m.vpYOffset = m.vpYOffset

\* C8: once the window size is known, every cache entry was rendered at the
\* current preview width.
C8_CacheAtCurrentWidth ==
    m.ready => \A f \in DOMAIN m.previewCache :
                  m.previewCache[f].pw = glamourWidth(previewW(m))

\* C9: a render result for a file that is no longer a plan changes neither
\* the cache nor the viewport, and a result for a file other than the
\* selected one never changes the viewport.
C9_StaleResultSwallowed ==
    \A x \in BagToSet(inbox) :
        x.type = "planContent" =>
            LET r == updatePlanContent(m, x)
            IN /\ x.file \notin FilesOf(planSource(m)) =>
                     /\ r.m.previewCache = m.previewCache
                     /\ r.m.vpContent = m.vpContent /\ r.m.vpYOffset = m.vpYOffset
               /\ x.file /= selectedFile(m) =>
                     r.m.vpContent = m.vpContent /\ r.m.vpYOffset = m.vpYOffset

\* C10: after [ or ] is handled in the list pane outside a search, the label
\* filter is empty or the visible list is not.
C10_LabelCycleNeverEmpty ==
    (m.focused = "list" /\ m.filterState = "unfiltered" /\ m.selected = {}) =>
        \A k \in {"[", "]"} :
            LET r == updateKey(m, k)
            IN r.m.labelFilter = "" \/ Len(r.m.items) > 0
\* C6 (as stated): no event that reached the adapter less than 500 ms after
\* a write of our own is in a batch reported as fileChanged.
C6_EventSoonAfterWriteSuppressed ==
    \A b \in watch.emitted : \A e \in b.events : e.at - e.lastWrite >= SelfWriteWindow

\* C6 (amended): a batch is reported only when the adapter's check, made
\* after the coalescing sleep, comes 500 ms or more after every write of our
\* own that preceded an event of the batch; a batch checked sooner is dropped.
C6_BatchCheckedSoonAfterWriteDropped ==
    /\ \A b \in watch.emitted : \A e \in b.events : b.checkedAt - e.lastWrite >= SelfWriteWindow
    /\ \A b \in watch.dropped : \E e \in b.events : b.checkedAt - e.lastWrite < SelfWriteWindow

\* A batch with the event of a write of our own was dropped, and a later
\* batch was reported.
C6_Witness ==
    /\ \E b \in watch.dropped : \E e \in b.events : e.at = e.lastWrite
    /\ watch.emitted /= {}

\* The pending linger timer of the current batch.
CurrentLingerTick == [type |-> "batchLingerExpired", id |-> m.batchLingerID]

\* C11: from the handling of batchDone until the linger timer of that batch
\* is handled, every affected plan is in the visible list whatever its
\* status (no label filter, so only done/unset filtering could hide it).
C11_BatchPlansStayDuringLinger ==
    ( /\ m.batchKeepFiles /= {}
      /\ CurrentLingerTick \in BagToSet(inbox)
      /\ ~m.showDone /\ m.labelFilter = "" /\ m.filterState = "unfiltered" )
    => m.batchKeepFiles \cap FilesOf(planSource(m)) \subseteq FilesOf(m.items)

\* C12: the batch command the label editor sends has add = the labels the
\* user turned on (on now, and not already on every selected plan when the
\* editor opened) and remove = the labels the user turned off that are not
\* mixed; untouched labels are in neither.
C12_BatchAddRemoveAreUserToggles ==
    \A t \in BagToSet(tasks) :
        t.kind = "batchUpdateLabels" =>
            /\ t.add = {l \in DOMAIN m.labelToggled : m.labelToggled[l]} \ labelsOnAll(m)
            /\ t.remove = {l \in DOMAIN m.labelToggled : ~m.labelToggled[l]} \ m.labelMixed

\* The bytes after the frontmatter block of a text (the whole text when
\* there is no block), untouched: the text after its first n lines.
RECURSIVE skipLines(_, _)
skipLines(s, n) ==
    IF n = 0 \/ s = << >> THEN s
    ELSE IF Len(s) >= 2 /\ s[1] = CR /\ s[2] = LF THEN skipLines(Tail(Tail(s)), n - 1)
    ELSE IF Head(s) \in {CR, LF} THEN skipLines(Tail(s), n - 1)
    ELSE skipLines(Tail(s), n)
blockLines(content) ==
    LET lines == splitLines(normalizeNewlines(content))
    IN IF Len(lines) < 2 \/ lines[1] /= Dashes THEN 0 ELSE closingLine(lines)
hasBlock(content) == blockLines(content) > 0
rawBody(content) == skipLines(content, blockLines(content))

\* C13: after any number of setFrontmatter calls the body of the file is
\* byte-identical to the body it had at first.
C13_BodyPreserved == rawBody(calc.text) = rawBody(calc.orig)

\* C14: parsing the serialization of a field map and a body gives back the
\* map without its empty-valued entries and the same body.
FieldMaps ==
    {<< >>, mapPut(<< >>, <<"status">>, <<"done">>),
     mapPut(mapPut(<< >>, <<"status">>, <<"done">>), <<"extra">>, <<"x">>),
     mapPut(mapPut(<< >>, <<"status">>, <<"done">>), <<"labels">>, << >>)}
withoutEmpties(f) == [k \in {x \in DOMAIN f : f[x] /= << >>} |-> f[k]]
C14_ParseSerializeRoundTrip ==
    \A f \in FieldMaps :
        parseFrontmatter(serializeFrontmatter(f, calc.text))
            = [fields |-> withoutEmpties(f), body |-> calc.text]

\* C15: deleting a key twice leaves the same bytes as deleting it once.
C15_DeleteIdempotent ==
    \A k \in {<<"status">>, <<"extra">>} :
        LET once == setFrontmatterText(calc.text, mapPut(<< >>, k, << >>))
        IN setFrontmatterText(once, mapPut(<< >>, k, << >>)) = once

\* C16: after setFrontmatter the file begins with a frontmatter block iff
\* the merged field map is not empty, and a file without a block is
\* byte-identical again after a status is set and then cleared.
C16_BlockIffFieldsAndClearRestores ==
    /\ \A u \in Updates :
          hasBlock(setFrontmatterText(calc.text, u))
              <=> DOMAIN mergeUpdates(parseFrontmatter(calc.text).fields, u) /= {}
    /\ ~hasBlock(calc.text) =>
          setFrontmatterText(setFrontmatterText(calc.text, mapPut(<< >>, <<"status">>, <<"done">>)),
                             mapPut(<< >>, <<"status">>, << >>)) = calc.text

\* C17: the core never writes the legacy form: after a status write of the
\* core no file's frontmatter has the status "pending".
C17_NoLegacyStatusWritten == \A f \in Files : disk[f].exists => disk[f].status /= "pending"

\* A label list is normalized: every label lowercase and trimmed, no label
\* twice, ascending.
Normalized(ls) ==
    /\ \A i \in DOMAIN ls : ls[i] /= << >> /\ ToLower(ls[i]) = ls[i] /\ TrimSpace(ls[i]) = ls[i]
    /\ \A i, j \in DOMAIN ls : i < j => ls[i] /= ls[j] /\ labelKey(ls[i]) <= labelKey(ls[j])

\* C18: the label list scanPlans reads from a file and the label list
\* batchUpdateLabels stores are normalized.
C18_LabelListsNormalized == Normalized(calc.text) /\ Normalized(parseLabels(calc.orig))

\* The retention predicate as the specification words it.
RetainedAsStated(p, in) ==
    /\ in.labelFilter = "" \/ in.labelFilter \in p.labels
    /\ in.showDone \/ p.status /= "done" \/ path(p) \in in.keep
    /\ \/ in.showDone \/ p.status /= "" \/ path(p) \in in.keep
       \/ in.installed /= ZeroTime /\ ~(p.modified < in.installed)
\* The result is the retained plans of the input, in input order.
ResultIsRetainedInOrder ==
    LET in == calc.orig
        kept == {i \in DOMAIN in.plans : RetainedAsStated(in.plans[i], in)}
        nth(k) == CHOOSE i \in kept : Cardinality({j \in kept : j < i}) = k - 1
    IN /\ Len(calc.text) = Cardinality(kept)
       /\ \A k \in DOMAIN calc.text : calc.text[k] = in.plans[nth(k)]
UnkeptUnsetInResult ==
    \E k \in DOMAIN calc.text : calc.text[k].status = "" /\ path(calc.text[k]) \notin calc.orig.keep

\* C19 as stated: filterPlans retains exactly the plans of the retention
\* predicate, in input order, and with a zero install time no unset plan
\* outside the keep set is in the result.
C19_FilterRetainsIffZeroHides ==
    calc.writes = 1 =>
        /\ ResultIsRetainedInOrder
        /\ calc.orig.installed = ZeroTime => ~UnkeptUnsetInResult

\* C19, amended: filterPlans retains exactly the plans of the retention
\* predicate, in input order, and with a zero install time and showDone
\* off no unset plan outside the keep set is in the result.
C19_FilterRetainsIff ==
    calc.writes = 1 =>
        /\ ResultIsRetainedInOrder
        /\ calc.orig.installed = ZeroTime /\ ~calc.orig.showDone => ~UnkeptUnsetInResult
\* A call that drops the first of two plans and retains the second, an
\* unset plan outside the keep set modified at the install time.
C19_Witness ==
    /\ calc.writes = 1 /\ ~calc.orig.showDone
    /\ Len(calc.orig.plans) = 2 /\ calc.text = <<calc.orig.plans[2]>>
    /\ calc.text[1].status = "" /\ path(calc.text[1]) \notin calc.orig.keep
    /\ calc.orig.plans[1].status = "done"

\* The commands that go to the plan store.
StoreKinds == {"setStatus", "batchSetStatus", "setLabels", "batchUpdateLabels"}
StatusOfFile(plans, f) == {plans[i].status : i \in {k \in DOMAIN plans : plans[k].file = f}}

StatusCycle ==
    [s \in {"", "reviewed", "active", "done"} |->
        CASE s = "" -> "reviewed" [] s = "reviewed" -> "active" [] s = "active" -> "done"
          [] OTHER -> "reviewed"]
ListTakesKeys(mm) ==
    mm.focused = "list" /\ ~SettingFilter(mm) /\ ~mm.settingLabels /\ SelectedItem(mm) /= None

\* C21: ~ on the plan under the cursor, or on a selection, sends a status
\* change to a status of the cycle, the successor of the status of the plan
\* (of the first selected plan), and never the unset status.
C21_CycleKeySendsSuccessor ==
    ListTakesKeys(m) =>
        LET r == updateKey(m, "~")
            t == r.cmds[1]
            from == IF m.selected = {} THEN SelectedItem(m).status
                    ELSE firstSelectedPlan(m).status
        IN /\ Len(r.cmds) = 1
           /\ t.kind = IF m.selected = {} THEN "setStatus" ELSE "batchSetStatus"
           /\ t.status \in {"reviewed", "active", "done"}
           /\ from \in DOMAIN StatusCycle => t.status = StatusCycle[from]

\* The labels switched on in the editor.
ToggledOn(mm) == {l \in DOMAIN mm.labelToggled : mm.labelToggled[l]}

\* C22: esc in the open label editor (no flash running) closes it; when no
\* label was toggled or created since it was opened nothing is sent to the
\* store; when the toggles differ from the labels of the plan (single mode)
\* or something was toggled (batch mode) exactly one apply command is sent.
C22_EscAppliesOnlyChanges ==
    m.settingLabels /\ m.labelFlashTick = 0 =>
        LET r == handleLabelModal(m, "esc", "")
        IN /\ ~r.m.settingLabels
           /\ ~m.labelDirty => r.cmds = << >>
           /\ m.labelDirty /\ (m.labelBatchMode \/ (SelectedItem(m) /= None /\ ToggledOn(m) /= SelectedItem(m).labels))
                 => Len(r.cmds) = 1 /\ r.cmds[1].kind \in StoreKinds

\* The overlays of the model that are open.
OpenModals(mm) ==
    {n \in {"help", "releaseNotes", "confirmDelete", "settingStatus", "settingLabels"} :
        CASE n = "help" -> mm.helpShowAll
          [] n = "releaseNotes" -> mm.releaseNotesOn
          [] n = "confirmDelete" -> mm.confirmDelete
          [] n = "settingStatus" -> mm.settingStatus
          [] OTHER -> mm.settingLabels}

\* C23: at most one of the help overlay, the release notes, the delete
\* confirmation, the status picker and the label editor is open.
C23_AtMostOneModal == Cardinality(OpenModals(m)) <= 1

\* What the list and preview key bindings act on: the plans, the list, the
\* filters, the selection, demo mode, the focused pane, the preview offset.
PaneState(mm) ==
    <<mm.allPlans, mm.demoPlans, mm.items, mm.index, mm.showDone, mm.labelFilter,
      mm.selected, mm.demoActive, mm.focused, mm.vpYOffset>>
PaneKeys == {"d", " ", "B", "a", "[", "]", "x", "#", "~", "0", "1", "2", "3", "u", "tab"}
\* Update for key k; the demo key needs the plan files (exitDemoMode).
UpdateForKey(k) == IF k = "d" THEN demoToggle(m, scanPlans(disk)) ELSE updateKey(m, k)

\* C24: while an overlay is open, none of the list and preview keys changes
\* the plans, the list, the filters, the selection, demo mode, the focused
\* pane or the preview offset.
C24_OverlayBlocksPaneKeys ==
    OpenModals(m) /= {} => \A k \in PaneKeys : PaneState(UpdateForKey(k).m) = PaneState(m)

\* C25: in every state, whatever overlay, pane or mode is active and also
\* while the label editor flashes, Update for ctrl+c returns the quit command.
C25_ForceQuitAlwaysQuits == quitCmd \in SeqToSet(updateKey(m, "ctrl+c").cmds)

\* C26: no Update step reads the plan files itself: what the handling of a
\* posted message does is fixed by the model and the message, whatever the
\* files hold at that moment.
C26_UpdateReadsNoFiles ==
    \A msg \in BagToSet(inbox) :
        Update(m, msg, scanPlans(disk)) = Update(m, msg, scanPlans(InitDisk))

\* ------------------------------------------------------------ the demo store
\* Deleting and batch changes in and out of demo mode.
DemoStoreKeys == {"#", "y", "n", "j"}
NextDemoStore ==
    \/ \E k \in DemoStoreKeys : m.notificationID < MaxGen /\ Key(k)
    \/ DemoKey
    \/ RunTask
    \/ DeliverResult
SpecDemoStore == Init /\ [][NextDemoStore]_vars

\* The message a waiting task posts when the demo store's slice holds plans.
outcomeWith(t, plans) == runCommand(t, disk, storeRead([m EXCEPT !.storePlans = plans], t)).msg

\* C27: every command has its inputs by value from the moment it is built:
\* what a waiting task will post does not depend on the plan list behind the
\* demo store at the time the task runs, so it is the same for the list the
\* store holds now, for the list the model shows, and for an empty list.
C27_TaskInputsByValue ==
    \A t \in BagToSet(tasks) :
        t.kind \in StoreKinds \cup {"delete"} =>
            \A plans \in {planSource(m), << >>} :
                outcomeWith(t, plans) = outcomeWith(t, m.storePlans)

\* ------------------------------------------------------- the watcher adapter
WatchTask == [kind |-> "watchDir"]
Waiting(ts) == CopiesIn(WatchTask, ts)
Reports(box) ==
    BagCardinality([x \in {y \in BagToSet(box) : y.type = "fileChanged"} |-> CopiesIn(x, box)])

\* One step of the adapter or of the loop, as C28 describes it: a report is
\* posted by a waiting task that ends with it, one report at a time; a
\* dropped batch posts nothing and leaves the task waiting; handling a
\* report outside demo mode starts exactly one task.
AdapterStep ==
    /\ Reports(inbox') > Reports(inbox) =>
          /\ Reports(inbox') = Reports(inbox) + 1
          /\ Waiting(tasks) = 1 /\ Waiting(tasks') = 0
    /\ watch'.dropped /= watch.dropped =>
          /\ Reports(inbox') = Reports(inbox)
          /\ Waiting(tasks') = Waiting(tasks) /\ Waiting(tasks) = 1
    /\ (Reports(inbox') < Reports(inbox) /\ ~m.demoActive) =>
          /\ Reports(inbox') = Reports(inbox) - 1
          /\ Waiting(tasks') = Waiting(tasks) + 1

\* C28: with a watcher configured at most one watchDir task waits at any
\* time; a task posts at most one fileChanged message and ends with it (a
\* suppressed batch posts none and the task goes on waiting); handling a
\* fileChanged message outside demo mode starts exactly one new task; so at
\* every moment either one task waits or one report is about to start one.
C28_OneWatcherTaskRearmed ==
    /\ [](m.watcher => Waiting(tasks) + Reports(inbox) = 1)
    /\ [][AdapterStep]_vars

\* A batch was dropped, a later one reported and handled, and the adapter
\* waits again.
C28_Witness ==
    /\ m.watcher /\ watch.dropped /= {} /\ watch.emitted /= {}
    /\ Reports(inbox) = 0 /\ Waiting(tasks) = 1

\* ------------------------------------------------- the watcher and demo mode
\* Demo mode entered and left while another program edits the plan files.
NextDemoWatch ==
    \/ DemoKey
    \/ Key("j")
    \/ ExternalEdit({"done", "remove"})
    \/ WatchEmit
    \/ DeliverResult
SpecDemoWatch == Init /\ [][NextDemoWatch]_vars

\* What handling msg in demo mode leaves alone, the read of the files included.
DemoStateKept(msg) ==
    /\ Update(m, msg, scanPlans(disk)).m = m
    /\ Update(m, msg, scanPlans(disk)) = Update(m, msg, scanPlans(InitDisk))

\* C29: while demo mode is active, handling a fileChanged message starts no
\* watchDir task, reads no plan file and leaves the demo plan list, the
\* preview cache and the selection as they are.
C29_DemoDoesNotRearm ==
    \A msg \in BagToSet(inbox) :
        (m.demoActive /\ msg.type = "fileChanged") =>
            /\ WatchTask \notin SeqToSet(Update(m, msg, scanPlans(disk)).cmds)
            /\ DemoStateKept(msg)

\* --------------------------------------------------- ToC lines in a rendering
\* Here a string is a sequence of characters; ESC stands for one whole ANSI
\* escape sequence of the rendered output.
MaxToc == 2
MaxText == 2
MaxRendered == 3
ESC == "ESC"
Backtick == "BT"
TrailingPunct == {",", ".", ";", ":", "!", "?", ")"}

\* ansi.Strip(line)
ansiStrip(line) == SelectSeq(line, LAMBDA c : c /= ESC)

\* strings.Fields(strings.ReplaceAll(s, backtick, ""))
removeBackticks(s) == SelectSeq(s, LAMBDA c : c /= Backtick)
Fields(s) == SelectSeq(splitOn(s, " ", << >>), LAMBDA f : f /= << >>)

\* strings.TrimRight(f, ",.;:!?)")
RECURSIVE TrimRightPunct(_)
TrimRightPunct(f) ==
    IF f /= << >> /\ f[Len(f)] \in TrailingPunct
    THEN TrimRightPunct(SubSeq(f, 1, Len(f) - 1))
    ELSE f

\* headingWords
headingWords(s) ==
    LET fields == Fields(removeBackticks(s))
    IN SelectSeq([i \in DOMAIN fields |-> TrimRightPunct(fields[i])], LAMBDA w : w /= << >>)

\* strings.Index(s, w): the first offset at which w starts in s, or -1.
stringsIndex(s, w) ==
    LET at == {i \in 0..(Len(s) - Len(w)) : SubSeq(s, i + 1, i + Len(w)) = w}
    IN IF at = {} THEN -1 ELSE CHOOSE i \in at : \A j \in at : i <= j

\* containsWordsInOrder
RECURSIVE containsWordsInOrder(_, _)
containsWordsInOrder(s, words) ==
    IF words = << >> THEN TRUE
    ELSE LET idx == stringsIndex(s, Head(words))
         IN IF idx < 0 THEN FALSE
            ELSE containsWordsInOrder(SubSeq(s, idx + Len(Head(words)) + 1, Len(s)), Tail(words))

\* The inner loop of computeRenderLines: the first line from j on that holds
\* the words, or -1.
RECURSIVE firstMatch(_, _, _)
firstMatch(stripped, words, j) ==
    IF j >= Len(stripped) THEN -1
    ELSE IF containsWordsInOrder(stripped[j + 1], words) THEN j
    ELSE firstMatch(stripped, words, j + 1)

\* The outer loop of computeRenderLines from entry i on; cursors records the
\* value of searchFrom after each entry.
RECURSIVE renderLinesFrom(_, _, _, _, _)
renderLinesFrom(toc, stripped, i, searchFrom, cursors) ==
    IF i > Len(toc) THEN [toc |-> toc, cursors |-> cursors]
    ELSE LET text == TrimSpace(toc[i].text)
             words == headingWords(text)
             j == IF text = << >> \/ words = << >> THEN -1
                  ELSE firstMatch(stripped, words, searchFrom)
         IN IF j < 0
            THEN renderLinesFrom(toc, stripped, i + 1, searchFrom, Append(cursors, searchFrom))
            ELSE renderLinesFrom([toc EXCEPT ![i].renderLine = j], stripped, i + 1, j + 1,
                                 Append(cursors, j + 1))

\* computeRenderLines(toc, rendered)
computeRenderLines(toc, rendered) ==
    IF Len(toc) = 0 THEN [toc |-> toc, cursors |-> << >>]
    ELSE LET rlines == splitLines(rendered)
             stripped == [j \in DOMAIN rlines |-> ansiStrip(rlines[j])]
         IN renderLinesFrom(toc, stripped, 1, 0, << >>)

\* Heading texts: every string of up to MaxText of the characters, and three
\* longer ones (two words, a code span followed by a comma, words reversed).
HeadingChars == {"a", "b", " ", Backtick, ","}
HeadingTexts ==
    UNION {[1..n -> HeadingChars] : n \in 0..MaxText}
        \cup {<<"a", " ", "b">>, <<Backtick, "a", Backtick, ",">>, <<"b", " ", "a">>}
\* extractToc leaves renderLine at its zero value.
tocEntry(text) == [text |-> text, renderLine |-> 0]
TocInputs == UNION {[1..n -> {tocEntry(t) : t \in HeadingTexts}] : n \in 0..MaxToc}
\* Rendered lines: empty, a heading, a styled heading of two words, and the
\* two letters the other way round.
RenderedLines == {<< >>, <<"a">>, <<ESC, "a", " ", ESC, "b">>, <<"b", "a">>}
RenderedInputs == UNION {[1..n -> RenderedLines] : n \in 0..MaxRendered}

\* calc.orig holds the ToC and the rendered text, calc.text the result.
InitToc ==
    /\ InitFrom(InitDisk)
    /\ \E toc \in TocInputs, rl \in RenderedInputs :
          calc = [orig |-> [toc |-> toc, rendered |-> joinLines(rl)], text |-> << >>, writes |-> 0]

ComputeRenderLines ==
    /\ calc.writes = 0
    /\ calc' = [calc EXCEPT !.text = computeRenderLines(calc.orig.toc, calc.orig.rendered),
                            !.writes = 1]
    /\ UNCHANGED <<m, disk, tasks, inbox, fsEvents, edits, resizes, watch>>

NextToc == ComputeRenderLines
SpecToc == InitToc /\ [][NextToc]_vars

\* The stripped lines of the rendering under study, the cursor before entry
\* i, and the lines from that cursor on that hold the entry's words.
StrippedLines == LET rlines == splitLines(calc.orig.rendered)
                 IN [j \in DOMAIN rlines |-> ansiStrip(rlines[j])]
CursorBefore(i) == IF i = 1 THEN 0 ELSE calc.text.cursors[i - 1]
Searchable(i) ==
    /\ TrimSpace(calc.orig.toc[i].text) /= << >>
    /\ headingWords(TrimSpace(calc.orig.toc[i].text)) /= << >>
MatchesFrom(i) ==
    {j \in CursorBefore(i)..(Len(StrippedLines) - 1) :
        containsWordsInOrder(StrippedLines[j + 1], headingWords(TrimSpace(calc.orig.toc[i].text)))}
Matched(i) == Searchable(i) /\ MatchesFrom(i) /= {}

\* Every entry that can be matched gets the first line at or after the
\* cursor, not below the line of any matched entry before it, and the cursor
\* moves to the line after it.
MatchedGetFirstLine ==
    calc.writes = 1 =>
        \A i \in DOMAIN calc.text.toc :
            Matched(i) =>
                /\ calc.text.toc[i].renderLine \in MatchesFrom(i)
                /\ \A j \in MatchesFrom(i) : calc.text.toc[i].renderLine <= j
                /\ \A h \in 1..(i - 1) : Matched(h) =>
                        calc.text.toc[h].renderLine <= calc.text.toc[i].renderLine
                /\ calc.text.cursors[i] = calc.text.toc[i].renderLine + 1

\* C30: after computeRenderLines the renderLine values of the entries in
\* source order never decrease, and every entry with text and words whose
\* words occur in order in a line at or after the cursor gets the first such
\* line, not below the previous matched entry's line, with the cursor moved
\* to the line after it.
C30_RenderLinesNonDecreasing ==
    /\ calc.writes = 1 =>
          \A i, j \in DOMAIN calc.text.toc :
              i < j => calc.text.toc[i].renderLine <= calc.text.toc[j].renderLine
    /\ MatchedGetFirstLine

\* ------------------------------------------------------ comments in a body
\* A body is a text of tokens with LF between its lines, as a file text is.
MaxBody == 4
CommentPrefix == "> **[comment]:** "
blankLine(line) == TrimSpace(line) = << >>

\* fmt.Sprintf("> **[comment]:** %s", text)
commentLineOf(text) == <<CommentPrefix>> \o text

\* injectComment(body, headingLine, text); headingLine counts from 0.
injectComment(body, headingLine, text) ==
    LET blines == splitLines(body)
    IN IF headingLine < 0 \/ headingLine >= Len(blines) THEN body
       ELSE LET head == SubSeq(blines, 1, headingLine + 1)
                rest == SubSeq(blines, headingLine + 2, Len(blines))
                kept == IF rest /= << >> /\ blankLine(rest[1]) THEN Tail(rest) ELSE rest
            IN joinLines(head \o << << >>, commentLineOf(text), << >> >> \o kept)

\* A removeComment that takes out the comment line and nothing else.
removeCommentLineOnly(body, commentLine) ==
    LET blines == splitLines(body)
    IN IF commentLine < 0 \/ commentLine >= Len(blines) THEN body
       ELSE joinLines(SubSeq(blines, 1, commentLine)
                      \o SubSeq(blines, commentLine + 2, Len(blines)))

\* removeComment(body, commentLine)
removeComment(body, commentLine) ==
    LET blines == splitLines(body)
    IN IF commentLine < 0 \/ commentLine >= Len(blines) THEN body
       ELSE LET before == SubSeq(blines, 1, commentLine)
                rest == SubSeq(blines, commentLine + 2, Len(blines))
                after == IF rest /= << >> /\ blankLine(rest[1]) THEN Tail(rest) ELSE rest
                kept == IF before /= << >> /\ blankLine(before[Len(before)])
                        THEN SubSeq(before, 1, Len(before) - 1) ELSE before
            IN joinLines(kept \o after)

\* replaceComment(body, commentLine, newText)
replaceComment(body, commentLine, newText) ==
    LET blines == splitLines(body)
    IN IF commentLine < 0 \/ commentLine >= Len(blines) THEN body
       ELSE joinLines([blines EXCEPT ![commentLine + 1] = commentLineOf(newText)])

\* extractToc's test for a heading outside a fence: the trimmed line starts
\* with one to six "#" and a blank.
RECURSIVE hashes(_)
hashes(line) == IF line /= << >> /\ Head(line) = "#" THEN 1 + hashes(Tail(line)) ELSE 0
isHeading(line) ==
    LET trimmed == TrimSpace(line)
        level == hashes(trimmed)
    IN level >= 1 /\ level <= 6 /\ Len(trimmed) > level /\ trimmed[level + 1] = " "

\* Bodies of up to MaxBody lines: empty, blank, a heading, content, a comment.
BodyLines == {<< >>, <<" ">>, <<"#", " ", "a">>, <<"x">>}
Bodies == {joinLines(bl) : bl \in UNION {[1..n -> BodyLines] : n \in 0..MaxBody}}
CommentTexts == {<<"t">>, <<"t", " ", "u">>}

\* calc.orig holds the body, a line index (in range or not) and a comment
\* text; calc.text the operation applied and the body it returned.
InitComment ==
    /\ InitFrom(InitDisk)
    /\ \E b \in Bodies, h \in -1..MaxBody, t \in CommentTexts :
          calc = [orig |-> [body |-> b, line |-> h, text |-> t],
                  text |-> [op |-> "none", body |-> b], writes |-> 0]

InjectComment ==
    /\ calc.text.op = "none"
    /\ calc' = [calc EXCEPT !.text = [op |-> "inject",
                    body |-> injectComment(calc.orig.body, calc.orig.line, calc.orig.text)],
                            !.writes = 1]
    /\ UNCHANGED <<m, disk, tasks, inbox, fsEvents, edits, resizes, watch>>
RemoveInjected ==
    /\ calc.text.op = "inject"
    /\ calc' = [calc EXCEPT !.text = [op |-> "injectRemove",
                    body |-> removeComment(calc.text.body, calc.orig.line + 2)],
                            !.writes = 2]
    /\ UNCHANGED <<m, disk, tasks, inbox, fsEvents, edits, resizes, watch>>
RemoveComment ==
    /\ calc.text.op = "none"
    /\ calc' = [calc EXCEPT !.text = [op |-> "remove",
                    body |-> removeComment(calc.orig.body, calc.orig.line)],
                            !.writes = 1]
    /\ UNCHANGED <<m, disk, tasks, inbox, fsEvents, edits, resizes, watch>>
ReplaceComment ==
    /\ calc.text.op = "none"
    /\ calc' = [calc EXCEPT !.text = [op |-> "replace",
                    body |-> replaceComment(calc.orig.body, calc.orig.line, calc.orig.text)],
                            !.writes = 1]
    /\ UNCHANGED <<m, disk, tasks, inbox, fsEvents, edits, resizes, watch>>

NextComment ==
    \/ InjectComment
    \/ RemoveInjected
    \/ RemoveComment
    \/ ReplaceComment
SpecComment == InitComment /\ [][NextComment]_vars

\* b is a with one blank line taken out.
withoutLine(ls, k) == SubSeq(ls, 1, k - 1) \o SubSeq(ls, k + 1, Len(ls))
OneBlankRemoved(a, b) ==
    LET als == splitLines(a)
    IN \E k \in DOMAIN als : blankLine(als[k]) /\ Len(als) > 1 /\ joinLines(withoutLine(als, k)) = b
LineInRange == calc.orig.line >= 0 /\ calc.orig.line < Len(splitLines(calc.orig.body))
OnHeading == LineInRange /\ isHeading(splitLines(calc.orig.body)[calc.orig.line + 1])

\* C31: a comment injected under a heading and removed again at line h+2
\* gives back the body, but for at most one blank line taken out or put in;
\* with a line index out of range injectComment, removeComment and
\* replaceComment return the body they were given.
C31_InjectRemoveRestores ==
    /\ (calc.text.op = "injectRemove" /\ OnHeading) =>
          \/ calc.text.body = calc.orig.body
          \/ OneBlankRemoved(calc.orig.body, calc.text.body)
          \/ OneBlankRemoved(calc.text.body, calc.orig.body)
    /\ (calc.text.op \in {"inject", "remove", "replace"} /\ ~LineInRange) =>
          calc.text.body = calc.orig.body

\* A heading followed by a blank line got its comment injected and removed:
\* the blank line is gone.
C31_Witness ==
    /\ calc.text.op = "injectRemove" /\ OnHeading
    /\ OneBlankRemoved(calc.orig.body, calc.text.body)
    /\ calc.text.body /= calc.orig.body

\* ------------------------------------------------------- the list's cursor
\* C32: after every Update the cursor is valid: with rows in the list the
\* index lies in 0 .. len(items)-1, so that a plan is selected.
C32_CursorValid ==
    Len(VisibleItems(m)) > 0 =>
        /\ m.index >= 0 /\ m.index < Len(VisibleItems(m))
        /\ SelectedItem(m) /= None

\* ------------------------------------------------- the label editor's flash
\* The editor with enter and its flash while another program removes files.
NextLabelFlash ==
    \/ \E k \in {"l", "x"} : Key(k)
    \/ \E l \in Labels : LabelKey("space", l) /\ l \in SeqToSet(m.labelChoices)
    \/ \E l \in Labels : LabelKey("enter", l) /\ l \in SeqToSet(m.labelChoices)
    \/ ExternalEdit({"remove"})
    \/ WatchEmit
    \/ RunTask
    \/ DeliverResult
SpecLabelFlash == InitLabels /\ [][NextLabelFlash]_vars

LabelCmds(cmds) == SelectSeq(cmds, LAMBDA c : c.kind \in {"setLabels", "batchUpdateLabels"})
FlashMsg == [type |-> "labelFlash"]

\* Enter on an entry of the open editor toggles it and starts the flash.
EnterTogglesAndFlashes ==
    (m.settingLabels /\ m.labelFlashTick = 0) =>
        \A l \in SeqToSet(m.labelChoices) :
            LET r == handleLabelModal(m, "enter", l)
            IN /\ r.m.labelFlashTick > 0
               /\ isToggled(r.m, l) /= (isToggled(m, l) /\ l \notin m.labelMixed)
               /\ tick(FlashMsg) \in SeqToSet(r.cmds)
\* No key of the editor changes the toggled set during the flash.
FlashKeepsToggled ==
    m.labelFlashTick > 0 =>
        \A kind \in {"esc", "enter", "enterTyped", "space", "create"}, l \in Labels :
            handleLabelModal(m, kind, l).m.labelToggled = m.labelToggled
\* The last flash tick closes the editor and sends the label change once.
FlashEndApplies ==
    (m.labelFlashTick = 1 /\ FlashMsg \in BagToSet(inbox)) =>
        LET r == Update(m, FlashMsg, scanPlans(disk))
        IN ~r.m.settingLabels /\ Len(LabelCmds(r.cmds)) = 1

\* C33: in the label editor enter on an existing entry toggles it and starts
\* the flash; no key during the flash changes the toggled set; when the
\* flash has run out the editor is closed and the label changes are applied
\* exactly once, whatever was handled in between.
C33_EnterFlashesThenApplies ==
    /\ EnterTogglesAndFlashes
    /\ FlashKeepsToggled
    /\ FlashEndApplies

\* ------------------------------------------------- the delete confirmation
\* The confirmation with the mouse wheel, outside edits and the timers.
NextConfirm ==
    \/ \E k \in {"#", "y", "n"} : m.notificationID < MaxGen /\ Key(k)
    \/ \E down \in BOOLEAN : MouseWheel(TRUE, down)
    \/ ExternalEdit({"done"})
    \/ WatchEmit
    \/ RunTask
    \/ DeliverResult
    \/ TimerFires
SpecConfirm == Init /\ [][NextConfirm]_vars

\* The file of the plan that y would delete now, "" if none.
DeletedByYes(mm) ==
    LET del == SelectSeq(handleDeleteConfirm(mm, "y").cmds, LAMBDA c : c.kind = "delete")
    IN IF del = << >> THEN "" ELSE del[1].plan.file

\* C34: y deletes the plan that was selected, and named in the prompt, when
\* # opened the confirmation: the prompt of a newly opened confirmation names
\* the plan y would delete, and no step taken while the confirmation stays
\* open changes which plan that is.
C34_YesDeletesPromptedPlan ==
    [][/\ (~m.confirmDelete /\ m'.confirmDelete) =>
              m'.notification = deletePrompt(DeletedByYes(m'))
       /\ (m.confirmDelete /\ m'.confirmDelete) => DeletedByYes(m') = DeletedByYes(m)]_vars

\* C35: while the confirmation is open the notification is the prompt for
\* the selected plan.
C35_PromptStaysDisplayed ==
    m.confirmDelete => \E f \in Files : m.notification = deletePrompt(f)

\* ------------------------------------------------------ the undo indicator
\* C36: the rows marked in undoFiles match the undo record: none without a
\* record, otherwise at most the plan of the pending record.
C36_UndoIndicatorMatchesRecord ==
    IF m.lastStatusChange = None
    THEN DOMAIN m.undoFiles = {}
    ELSE DOMAIN m.undoFiles \subseteq {m.lastStatusChange.newPlan.file}

\* ------------------------------------------------ results across a mode switch
\* The demo key pressed while store commands run or their results wait
\* (the renders of the previous toggle are done).
DemoKeyAnytime ==
    /\ \A x \in BagToSet(inbox) : x.type /= "planContent"
    /\ Return(demoToggle(m, scanPlans(disk)))
    /\ UNCHANGED <<disk, fsEvents, edits, resizes, watch, calc>>

NextModeSwitch ==
    \/ \E k \in {"3", "x"} : m.notificationID < MaxGen /\ Key(k)
    \/ DemoKeyAnytime
    \/ RunTask
    \/ DeliverResult
    \/ TimerFires
SpecModeSwitch == Init /\ [][NextModeSwitch]_vars

\* Plans scanned from disk carry the plans directory, demo plans none.
ActiveDir(mm) == IF mm.demoActive THEN NoDir ELSE PlansDir

\* C37: allPlans holds only plans scanned from disk and the demo list only
\* demo plans; the undo record and the keep set refer to plans of the
\* active mode.
C37_ModesDoNotMix ==
    /\ \A i \in DOMAIN m.allPlans : m.allPlans[i].dir = PlansDir
    /\ \A i \in DOMAIN m.demoPlans : m.demoPlans[i].dir = NoDir
    /\ m.lastStatusChange /= None => m.lastStatusChange.newPlan.dir = ActiveDir(m)
    /\ m.batchKeepFiles \subseteq FilesOf(planSource(m))

\* ------------------------------------------------------------------ C38
\* List changes with the preview on: the first window size starts the
\* renders, then the done filter is toggled, esc clears the filters, the
\* cursor moves, statuses change and are undone, and the timers expire.
PreviewListKeys == {"a", "esc", "j", "3", "u"}
NextPreviewList ==
    \/ \E k \in PreviewListKeys : m.prerendered /\ Key(k)
    \/ ~m.prerendered /\ Resize(Width1)
    \/ RunTask
    \/ DeliverResult
    \/ TimerFires

SpecPreviewList == Init /\ [][NextPreviewList]_vars

\* A render of the file is running or its result waits to be handled.
RenderInFlight(file) ==
    \E x \in BagToSet(inbox) : x.type = "planContent" /\ x.file = file

\* C38: once the preview is on and the visible list is not empty, the selected
\* plan's file is in the preview cache with that content displayed, or a
\* render of it is in flight.
C38_PreviewShowsSelected ==
    (m.prerendered /\ Len(VisibleItems(m)) > 0 /\ SelectedItem(m) /= None) =>
        LET file == selectedFile(m)
        IN \/ file \in DOMAIN m.previewCache /\ m.vpContent = m.previewCache[file]
           \/ RenderInFlight(file)

\* ------------------------------------------------------------------ C39
\* The user presses key k while earlier commands run or their results wait:
\* every command is a goroutine of its own, and the loop handles the
\* results in the order they are posted.
KeyWhileBusy(k) ==
    LET r == updateKey(m, k)
    IN /\ Dispatches(r.cmds) => TimerGen < MaxGen
       /\ Return(r)
       /\ UNCHANGED <<disk, fsEvents, edits, resizes, watch, calc>>

\* Status changes asked for so far: handled, waiting as results, or running
\* (equal commands and equal results counted one by one).
StatusChanges ==
    m.undoID
      + BagCardinality([t \in {u \in BagToSet(tasks) : u.kind = "setStatus"} |-> CopiesIn(t, tasks)])
      + BagCardinality([x \in {y \in BagToSet(inbox) : y.type = "statusUpdated"} |-> CopiesIn(x, inbox)])

RaceKeys == {"3", "0", "j"}
NextRace ==
    \/ \E k \in RaceKeys : StatusChanges < MaxGen /\ KeyWhileBusy(k)
    \/ RunTask
    \/ DeliverResult
    \/ TimerFires

SpecRace == Init /\ [][NextRace]_vars

\* C39: when no store command runs and no result waits, the status of every
\* plan in memory is the status in its file.
C39_StatusMatchesFileWhenQuiet ==
    Quiet => \A i \in DOMAIN m.allPlans :
                 LET p == m.allPlans[i]
                 IN disk[p.file].exists => p.status = disk[p.file].status

\* ------------------------------------------------------------------ C40
\* A status change, a label change inside its undo window, and the undo.
NextUndoLabels ==
    \/ \E k \in {"1", "l", "u"} : Key(k)
    \/ \E l \in Labels : LabelKey("space", l) /\ l \in SeqToSet(m.labelChoices)
    \/ \E l \in Labels : LabelKey("enter", l) /\ l \in SeqToSet(m.labelChoices)
    \/ RunTask
    \/ DeliverResult
    \/ TimerFires

SpecUndoLabels == Init /\ [][NextUndoLabels]_vars

\* The plan list after the step differs from the one before only in the
\* status and the modified time of the plan of msg.
OnlyStatusChanged(msg) ==
    /\ Len(m'.allPlans) = Len(m.allPlans)
    /\ \A i \in DOMAIN m.allPlans :
          LET p == m.allPlans[i]
              q == m'.allPlans[i]
          IN IF p.file = msg.newPlan.file
             THEN q = [p EXCEPT !.status = msg.newPlan.status, !.modified = q.modified]
             ELSE q = p

\* C40: handling a statusUpdated result changes only the status and the
\* modified time of the affected plan in the plan list; its labels and every
\* other plan keep their values.
C40_StatusResultChangesOnlyStatus ==
    [][\A msg \in BagToSet(inbox) :
          (msg.type = "statusUpdated" /\ DeliverMsg(msg)) => OnlyStatusChanged(msg)]_vars

============================================================================
